---- MODULE Spec2Model ----
(***************************************************************************)
(* Oratify backend: session lifecycle (services/session.py), the REST      *)
(* control layer (api/sessions.py), the in-memory connection manager       *)
(* (core/websocket.py), the event broadcasts (services/websocket_events.py)*)
(* and the websocket endpoint (api/websocket.py).                          *)
(*                                                                         *)
(* Every coroutine is cut at its suspension points (await of the database, *)
(* await of a websocket send); the code between two awaits is atomic, as   *)
(* under the asyncio event loop.  A database call reads or writes the      *)
(* committed store at the step where it completes.                         *)
(***************************************************************************)
EXTENDS Integers, Sequences, FiniteSets, TLC

VARIABLES
    sessions,      \* table "sessions": sequence of rows, row index = session id
    commits,       \* order in which session-row writes were committed
    participants,  \* table "participants": sequence of rows, index = participant id
    responses,     \* table "responses": sequence of rows
    registry,      \* ConnectionManager._connections: upper-cased code -> list of Connection
    reqs,          \* REST control requests (start/end/pause/resume/current-slide)
    bcR,           \* position of each control request's broadcast loop
    conns,         \* websocket_session coroutines, one per connection
    bcC,           \* position of each connection's broadcast loop
    inbox,         \* messages each websocket has been sent, in order
    creates        \* REST create-session requests

vars == <<sessions, commits, participants, responses, registry,
          reqs, bcR, conns, bcC, inbox, creates>>

----------------------------------------------------------------------------
(* Bounds *)
MaxReq == 2       \* control requests in flight together
MaxConn == 2      \* websockets opened from scratch
MaxAudience == 2  \* audience connections of a session that is already joined
MaxCreate == 2    \* create-session requests in flight together
MaxMsgs == 1      \* submit_response messages one connection sends

Reqs == 1..MaxReq
JoinedConns == 1..(MaxAudience + 1)  \* the speaker, then the audience
LateConn == MaxAudience + 2          \* a websocket opened on a joined session
Conns == 1..LateConn
NewConns == 1..MaxConn
Creates == 1..MaxCreate

----------------------------------------------------------------------------
(* Program constants *)
CodeLen == 6
MaxAttempts == 10

NoTime == 0
NoSlide == "NULL"
NoId == 0

PENDING == "pending"
ACTIVE == "active"
PAUSED == "paused"
ENDED == "ended"
SessionStatus == {PENDING, ACTIVE, PAUSED, ENDED}

SPEAKER == "speaker"
AUDIENCE == "audience"

----------------------------------------------------------------------------
(* Collaborator data: speakers, presentations and slides (CRUD is external) *)
Speakers == {"spk1", "spk2"}

PresentationIds == {"p1", "p2"}

\* presentation -> owner and slides (as stored, not ordered by order_index)
Presentation(p) ==
    CASE p = "p1" -> [speaker_id |-> "spk1", slides |-> <<"s2", "s1">>]
      [] p = "p2" -> [speaker_id |-> "spk2", slides |-> <<>>]

\* slide -> order_index
OrderIndex(s) == CASE s = "s1" -> 0 [] s = "s2" -> 1 [] OTHER -> 0

Range(f) == {f[i] : i \in DOMAIN f}

\* the slides found by id alone, whatever presentation they belong to
SlidesOf_AnyPresentation(p) == {"s1", "s2", "s3"}

\* select(Slide).where(Slide.presentation_id == p)
SlidesOf(p) == Range(Presentation(p).slides)

\* the join codes generate_join_code draws in this model (upper-case alphabet)
DrawCodes ==
    { code \in { <<"A","B","2","C","3","D">>, <<"X","Y","7","Z","9","K">> } :
         Len(code) = CodeLen }

\* the join codes a websocket URL may carry: the session's code in two
\* spellings, and a code no session has
UrlCodes ==
    { <<"A","B","2","C","3","D">>, <<"a","b","2","c","3","d">>,
      <<"X","Y","7","Z","9","K">> }

UpperChar(ch) ==
    CASE ch = "a" -> "A" [] ch = "b" -> "B" [] ch = "c" -> "C"
      [] ch = "d" -> "D" [] ch = "x" -> "X" [] ch = "y" -> "Y"
      [] ch = "z" -> "Z" [] ch = "k" -> "K" [] OTHER -> ch

\* str.upper()
Upper(code) == [i \in DOMAIN code |-> UpperChar(code[i])]

\* the keys _connections is looked up with (a missing key reads as [])
RegistryKeys == DrawCodes \cup UrlCodes

----------------------------------------------------------------------------
(* The durable store *)

Now == Len(commits) + 1

NoRow == [presentation_id |-> "", join_code |-> <<>>, current_slide_id |-> NoSlide,
          status |-> "", started_at |-> NoTime, ended_at |-> NoTime]

SessionIds == 1..Len(sessions)

\* UPDATE sessions SET <written columns> WHERE id = sid
ApplyWrite(row, w) == [f \in DOMAIN row |-> IF f \in DOMAIN w THEN w[f] ELSE row[f]]

\* select(Session).where(Session.id == session_id), then the ownership check
get_session_by_id(sid, speaker_id) ==
    IF sid \notin SessionIds THEN NoId
    ELSE IF Presentation(sessions[sid].presentation_id).speaker_id # speaker_id THEN NoId
    ELSE sid

\* the session looked up under the code as given, not upper-cased
get_session_by_join_code_AsGiven(join_code) ==
    LET hit == {i \in SessionIds : sessions[i].join_code = join_code}
    IN IF hit = {} THEN NoId ELSE CHOOSE i \in hit : TRUE

\* select(Session).where(Session.join_code == join_code.upper()).scalar_one_or_none()
get_session_by_join_code(join_code) ==
    LET hit == {i \in SessionIds : sessions[i].join_code = Upper(join_code)}
    IN IF hit = {} THEN NoId ELSE CHOOSE i \in hit : TRUE

\* the collision check without its status filter
check_join_code_exists_AnyStatus(join_code) ==
    \E i \in SessionIds : sessions[i].join_code = join_code

\* select(Session.id).where(join_code == code, status != "ended") is not None
check_join_code_exists(join_code) ==
    \E i \in SessionIds : /\ sessions[i].join_code = join_code
                          /\ sessions[i].status # ENDED

----------------------------------------------------------------------------
(* SessionLifecycle: services/session.py *)

\* end() also accepted on a pending session
allowed_transitions_PendingEnds(current) ==
    CASE current = PENDING -> {ACTIVE, ENDED}
      [] current = ACTIVE  -> {PAUSED, ENDED}
      [] current = PAUSED  -> {ACTIVE, ENDED}
      [] current = ENDED   -> {}
      [] OTHER -> {}

allowed_transitions(current) ==
    CASE current = PENDING -> {ACTIVE}
      [] current = ACTIVE  -> {PAUSED, ENDED}
      [] current = PAUSED  -> {ACTIVE, ENDED}
      [] current = ENDED   -> {}
      [] OTHER -> {}

\* TRUE when the transition is accepted, FALSE when ValueError is raised
validate_session_status_transition(current, new) == new \in allowed_transitions(current)

Ops == {"start", "end", "pause", "resume", "slide"}

\* change_current_slide without its membership check
ServiceAccepts_AnySlide(op, row, slide_id) ==
    CASE op = "start"  -> validate_session_status_transition(row.status, ACTIVE)
      [] op = "end"    -> validate_session_status_transition(row.status, ENDED)
      [] op = "pause"  -> validate_session_status_transition(row.status, PAUSED)
      [] op = "resume" -> row.status = PAUSED
      [] op = "slide"  -> TRUE

\* resume() validated against the table like start(): pending may resume
ServiceAccepts_ResumeByTable(op, row, slide_id) ==
    CASE op = "start"  -> validate_session_status_transition(row.status, ACTIVE)
      [] op = "end"    -> validate_session_status_transition(row.status, ENDED)
      [] op = "pause"  -> validate_session_status_transition(row.status, PAUSED)
      [] op = "resume" -> validate_session_status_transition(row.status, ACTIVE)
      [] op = "slide"  -> slide_id \in SlidesOf(row.presentation_id)

\* does the service call on the loaded row go through (no ValueError)?
ServiceAccepts(op, row, slide_id) ==
    CASE op = "start"  -> validate_session_status_transition(row.status, ACTIVE)
      [] op = "end"    -> validate_session_status_transition(row.status, ENDED)
      [] op = "pause"  -> validate_session_status_transition(row.status, PAUSED)
      [] op = "resume" -> row.status = PAUSED
      [] op = "slide"  -> slide_id \in SlidesOf(row.presentation_id)

ServiceError(op) == IF op = "slide" THEN "SlideNotInPresentation" ELSE "InvalidTransition"

\* the columns the service call assigns on the loaded row; the unit of work
\* flushes the assigned columns whose value differs from the loaded one
ServiceWrite(op, row, slide_id, now) ==
    CASE op = "start"  -> [status |-> ACTIVE, started_at |-> now]
      [] op = "end"    -> [status |-> ENDED, ended_at |-> now]
      [] op = "pause"  -> [status |-> PAUSED]
      [] op = "resume" -> [status |-> ACTIVE]
      [] op = "slide"  -> IF row.current_slide_id # slide_id
                          THEN [current_slide_id |-> slide_id] ELSE <<>>

\* resume announced with the pause event
EventOf_ResumeAsPause(op) ==
    CASE op = "start"  -> "session_started"
      [] op = "end"    -> "session_ended"
      [] op = "pause"  -> "session_paused"
      [] op = "resume" -> "session_paused"
      [] op = "slide"  -> "slide_changed"

EventOf(op) ==
    CASE op = "start"  -> "session_started"
      [] op = "end"    -> "session_ended"
      [] op = "pause"  -> "session_paused"
      [] op = "resume" -> "session_resumed"
      [] op = "slide"  -> "slide_changed"

----------------------------------------------------------------------------
(* ConnectionManager: core/websocket.py *)

Min(S) == CHOOSE x \in S : \A y \in S : x <= y

\* the list looked up under the code as given, not upper-cased
get_session_connections_AsGiven(reg, join_code) == reg[join_code]

\* self._connections.get(join_code.upper(), [])
get_session_connections(reg, join_code) == reg[Upper(join_code)]

get_participant_count(reg, join_code) ==
    LET connections == get_session_connections(reg, join_code)
    IN Cardinality({i \in DOMAIN connections : connections[i].role = AUDIENCE})

NoConnection == [connection_id |-> NoId, role |-> "", participant_id |-> NoId]

\* the speaker looked up under the code as given, not upper-cased
get_speaker_connection_AsGiven(reg, join_code) ==
    LET connections == reg[join_code]
        hit == {i \in DOMAIN connections : connections[i].role = SPEAKER}
    IN IF hit = {} THEN NoConnection ELSE connections[Min(hit)]

\* first connection of the list whose role is speaker, or None
get_speaker_connection(reg, join_code) ==
    LET connections == get_session_connections(reg, join_code)
        hit == {i \in DOMAIN connections : connections[i].role = SPEAKER}
    IN IF hit = {} THEN NoConnection ELSE connections[Min(hit)]

\* the append under the code as the URL spelled it
Register_AsGiven(reg, join_code, connection) ==
    [reg EXCEPT ![join_code] = Append(@, connection)]

\* the list append shared by connect() and the *_after_accept handlers
Register(reg, join_code, connection) ==
    [reg EXCEPT ![Upper(join_code)] = Append(@, connection)]

RemoveAt(list, i) == SubSeq(list, 1, i - 1) \o SubSeq(list, i + 1, Len(list))

\* index of the first entry with this connection_id, 0 when there is none
IndexOf(list, connection_id) ==
    LET hit == {i \in DOMAIN list : list[i].connection_id = connection_id}
    IN IF hit = {} THEN 0 ELSE Min(hit)

\* disconnect() that drops the whole list of the code once the entry is found
disconnect_WholeList(reg, join_code, connection_id) ==
    LET i == IndexOf(reg[Upper(join_code)], connection_id)
    IN IF i = 0 THEN reg
       ELSE [reg EXCEPT ![Upper(join_code)] = <<>>]

\* disconnect(): the registry after connections.pop(i) (an emptied list is deleted)
disconnect(reg, join_code, connection_id) ==
    LET i == IndexOf(reg[Upper(join_code)], connection_id)
    IN IF i = 0 THEN reg
       ELSE [reg EXCEPT ![Upper(join_code)] = RemoveAt(@, i)]

\* disconnect(): the removed Connection, or None
Removed(reg, join_code, connection_id) ==
    LET i == IndexOf(reg[Upper(join_code)], connection_id)
    IN IF i = 0 THEN NoConnection ELSE reg[Upper(join_code)][i]

\* close_session(): self._connections.pop(join_code.upper(), [])
close_session(reg, join_code) == [reg EXCEPT ![Upper(join_code)] = <<>>]

(* A broadcast loop "for conn in connections: await conn.websocket.send_json"  *)
(* iterates the list object it got from get_session_connections by position.  *)
(* While the list is still the one held by the registry (live) the loop sees  *)
(* every pop and append; once the registry drops the list object (del of an   *)
(* emptied list, or pop by close_session) the loop keeps the object as it was *)
(* at that moment (rest).                                                     *)
NoMsg == [type |-> "", kind |-> "", src |-> NoId, count |-> 0, slide |-> NoSlide,
          status |-> "", code |-> ""]

NoBc == [on |-> FALSE, live |-> FALSE, key |-> <<>>, idx |-> 0, rest |-> <<>>,
         msg |-> NoMsg, exclude |-> NoId]

BcList(b) == IF b.live THEN registry[b.key] ELSE b.rest

\* position of the next connection the loop sends to, 0 when the loop is over
NextTarget(list, idx, exclude) ==
    LET c == {j \in DOMAIN list : j > idx /\ list[j].connection_id # exclude}
    IN IF c = {} THEN 0 ELSE Min(c)

\* the loop state when broadcast_to_session is entered
BcStart(join_code, message, exclude) ==
    [on |-> TRUE, live |-> registry[Upper(join_code)] # <<>>, key |-> Upper(join_code),
     idx |-> 0, rest |-> <<>>, msg |-> message, exclude |-> exclude]

\* what a loop holds after the registry has let go of the list object of key
Detach(b, key, object) ==
    IF b.on /\ b.live /\ b.key = key
    THEN [b EXCEPT !.live = FALSE, !.idx = 0,
                   !.rest = SubSeq(object, b.idx + 1, Len(object))]
    ELSE b

\* every loop of bcs after the registry let go of the list object of key
DetachAll(bcs, key, object) == [p \in DOMAIN bcs |-> Detach(bcs[p], key, object)]

\* await conn.websocket.send_json(message): a closed socket raises, which the
\* broadcast loops log and skip
SocketOpen(c) ==
    /\ conns[c].pc \notin {"new", "left_mark", "left_bcast", "closed"}
    /\ ~conns[c].broken

\* the logger.error of a send that raised: 1 when the send to c fails
Raised(c) == IF SocketOpen(c) THEN 0 ELSE 1

\* the message sent to every open socket instead of the one of c
Send_ToEveryone(inb, c, message) ==
    [d \in DOMAIN inb |-> IF SocketOpen(d) THEN Append(inb[d], message) ELSE inb[d]]

Send(inb, c, message) ==
    IF SocketOpen(c) THEN [inb EXCEPT ![c] = Append(@, message)] ELSE inb

Message(type, kind, src) == [NoMsg EXCEPT !.type = type, !.kind = kind, !.src = src]

\* position of the next send of loop b, 0 when the loop is over
Target(b) == NextTarget(BcList(b), b.idx, b.exclude)

TargetId(b) == BcList(b)[Target(b)].connection_id

----------------------------------------------------------------------------
(* REST control layer: api/sessions.py start/end/pause/resume/current-slide *)

NoReq == [pc |-> "idle", op |-> "", sid |-> NoId, slide_id |-> NoSlide,
          session |-> NoRow, result |-> "", broadcasts |-> 0, failures |-> 0]

SlideInputs == {"s1", "s2", "s3"}

Finished(q, result) ==
    [q EXCEPT !.pc = "done", !.result = result, !.sid = NoId,
              !.slide_id = NoSlide, !.session = NoRow]

\* session = await get_session_by_id(db, session_id, speaker.id); 404 when None
ReqLoad(r, op, sid, speaker_id, slide_id) ==
    /\ reqs[r].pc = "idle"
    /\ LET id == get_session_by_id(sid, speaker_id)
           q == [reqs[r] EXCEPT !.op = op]
       IN reqs' = [reqs EXCEPT ![r] =
                     IF id = NoId THEN Finished(q, "NotFound")
                     ELSE [q EXCEPT !.pc = "loaded", !.sid = sid,
                                    !.slide_id = slide_id, !.session = sessions[sid]]]
    /\ UNCHANGED <<sessions, commits, participants, responses, registry,
                   bcR, conns, bcC, inbox, creates>>

\* session_service.<op>(db, session): validate against the loaded row, assign,
\* await db.commit(); ValueError becomes 400 before anything is written
ReqService(r) ==
    /\ reqs[r].pc = "loaded"
    /\ LET q == reqs[r]
       IN IF ~ServiceAccepts(q.op, q.session, q.slide_id)
          THEN /\ reqs' = [reqs EXCEPT ![r] = Finished(q, ServiceError(q.op))]
               /\ UNCHANGED <<sessions, commits>>
          ELSE /\ sessions' = [sessions EXCEPT ![q.sid] =
                      ApplyWrite(@, ServiceWrite(q.op, q.session, q.slide_id, Now))]
               /\ commits' = Append(commits, [req |-> r, op |-> q.op, sid |-> q.sid])
               /\ reqs' = [reqs EXCEPT ![r].pc = "committed"]
    /\ UNCHANGED <<participants, responses, registry, bcR, conns, bcC, inbox, creates>>

\* the broadcaster drops the registry entry of the code after every broadcast
ReqFinish_CloseAlways(r, q, join_code) ==
    /\ reqs' = [reqs EXCEPT ![r] = Finished(q, "ok")]
    /\ registry' = close_session(registry, join_code)
    /\ bcR' = [DetachAll(bcR, Upper(join_code), registry[Upper(join_code)])
                  EXCEPT ![r] = NoBc]
    /\ bcC' = DetachAll(bcC, Upper(join_code), registry[Upper(join_code)])

\* the broadcast loop of request r (left as record q) is over:
\* broadcast_session_ended then closes the session's registry entry,
\* the other broadcasts just return; the handler returns the response
ReqFinish(r, q, join_code) ==
    /\ reqs' = [reqs EXCEPT ![r] = Finished(q, "ok")]
    /\ IF q.op = "end"
       THEN /\ registry' = close_session(registry, join_code)
            /\ bcR' = [DetachAll(bcR, Upper(join_code), registry[Upper(join_code)])
                          EXCEPT ![r] = NoBc]
            /\ bcC' = DetachAll(bcC, Upper(join_code), registry[Upper(join_code)])
       ELSE /\ bcR' = [bcR EXCEPT ![r] = NoBc]
            /\ UNCHANGED <<registry, bcC>>

\* await db.refresh(session), then websocket_events.broadcast_<event>(session)
\* up to its first send
ReqBroadcast(r) ==
    /\ reqs[r].pc = "committed"
    /\ LET row == sessions[reqs[r].sid]
           message == [Message(EventOf(reqs[r].op), "lifecycle", r) EXCEPT
                          !.slide = row.current_slide_id]
           b == BcStart(row.join_code, message, NoId)
           q == [reqs[r] EXCEPT !.session = row, !.broadcasts = @ + 1]
       IN IF reqs[r].op = "slide" /\ row.current_slide_id = NoSlide
          THEN /\ reqs' = [reqs EXCEPT ![r] = Finished(reqs[r], "ok")]
               /\ UNCHANGED <<registry, bcR, bcC, inbox>>
          ELSE IF Target(b) = 0
          THEN /\ ReqFinish(r, q, row.join_code)
               /\ UNCHANGED inbox
          ELSE /\ inbox' = Send(inbox, TargetId(b), message)
               /\ bcR' = [bcR EXCEPT ![r] = [b EXCEPT !.idx = Target(b)]]
               /\ reqs' = [reqs EXCEPT ![r] = [q EXCEPT !.pc = "broadcast",
                                                  !.failures = @ + Raised(TargetId(b))]]
               /\ UNCHANGED <<registry, bcC>>
    /\ UNCHANGED <<sessions, commits, participants, responses, conns, creates>>

\* the broadcast loop resumes after a send: next connection, or the loop ends
ReqBroadcastNext(r) ==
    /\ reqs[r].pc = "broadcast"
    /\ LET b == bcR[r]
       IN IF Target(b) = 0
          THEN /\ ReqFinish(r, reqs[r], reqs[r].session.join_code)
               /\ UNCHANGED inbox
          ELSE /\ inbox' = Send(inbox, TargetId(b), b.msg)
               /\ bcR' = [bcR EXCEPT ![r].idx = Target(b)]
               /\ reqs' = [reqs EXCEPT ![r].failures = @ + Raised(TargetId(b))]
               /\ UNCHANGED <<registry, bcC>>
    /\ UNCHANGED <<sessions, commits, participants, responses, conns, creates>>

\* cleanup_expired_sessions: ends the non-ended sessions older than the
\* cutoff (expired: the ids whose created_at is before it), without validation
Cleanup(expired) ==
    /\ expired # {}
    /\ \A i \in expired : sessions[i].status \in {PENDING, ACTIVE, PAUSED}
    /\ sessions' = [i \in DOMAIN sessions |->
                      IF i \in expired
                      THEN [sessions[i] EXCEPT !.status = ENDED, !.ended_at = Now]
                      ELSE sessions[i]]
    /\ commits' = Append(commits, [req |-> NoId, op |-> "cleanup", sid |-> NoId])
    /\ UNCHANGED <<participants, responses, registry, reqs, bcR, conns, bcC,
                   inbox, creates>>

----------------------------------------------------------------------------
(* RealtimeGateway: api/websocket.py websocket_session and its handlers *)

\* data: the fields of the last submit_response message the main loop received
NoData == [slide_id |-> NoSlide, content |-> FALSE]

NoConn == [pc |-> "new", join_code |-> <<>>, connection |-> FALSE, role |-> "",
           sid |-> NoId, status |-> "", participant_id |-> NoId,
           slide_id |-> NoSlide, speaker_id |-> "", close_code |-> 0, error |-> "",
           received |-> 0, data |-> NoData, participant_count |-> 0,
           after_removal |-> 0, broken |-> FALSE]

\* the token field of a join_speaker message: absent ("none"), not a valid
\* JWT ("bad"), a valid JWT without sub ("nosub"), or the JWT of a speaker
Tokens == {"none", "bad", "nosub"} \cup Speakers

NoPayload == [decoded |-> FALSE, sub |-> ""]

\* decode_token accepting whatever it is given
decode_token_Unverified(token) ==
    [decoded |-> TRUE, sub |-> IF token \in Speakers THEN token ELSE "spk1"]

\* core/security.py decode_token: the payload, or None on JWTError
decode_token(token) ==
    IF token = "bad" THEN NoPayload
    ELSE [decoded |-> TRUE, sub |-> IF token \in Speakers THEN token ELSE ""]

Error(code) == [Message("error", "error", NoId) EXCEPT !.code = code]

Closed(cn, close_code) ==
    [NoConn EXCEPT !.pc = "closed", !.close_code = close_code,
                   !.participant_id = cn.participant_id]

\* the error reply followed by websocket.close(code) of a rejected handshake
\* (the inbox of a socket is dropped when the socket closes; the reply it was
\* closed with stays in the connection's error field)
Reject(c, code, close_code) ==
    /\ inbox' = [inbox EXCEPT ![c] = <<>>]
    /\ conns' = [conns EXCEPT ![c] = [Closed(@, close_code) EXCEPT !.error = code]]

\* connection_id = uuid4(); await websocket.accept()
ConnAccept(c, join_code) ==
    /\ conns[c].pc = "new"
    /\ conns' = [conns EXCEPT ![c].pc = "accepted", ![c].join_code = join_code]
    /\ UNCHANGED <<sessions, commits, participants, responses, registry,
                   reqs, bcR, bcC, inbox, creates>>

\* close code of a socket whose handler returned without calling close
NoClose == 0

\* a first message that is not a join or join_speaker object: text that
\* receive_json cannot parse ("unparsed"), JSON that is not an object
\* ("not_object"), an object of another or no type ("other_type")
FirstInvalid == {"unparsed", "not_object", "other_type"}

\* first message: receive_json raises and the socket is closed with 4000; or
\* initial_data.get raises AttributeError on a list, string, number or null,
\* which the outer except logs, and the handler returns through finally with
\* connection None and no close call; or the type is neither join nor
\* join_speaker
ConnFirstInvalid(c, first) ==
    /\ conns[c].pc = "accepted"
    /\ IF first = "other_type"
       THEN Reject(c, "invalid_message", 4000)
       ELSE /\ conns' = [conns EXCEPT ![c] =
                   Closed(@, IF first = "unparsed" THEN 4000 ELSE NoClose)]
            /\ inbox' = [inbox EXCEPT ![c] = <<>>]
    /\ UNCHANGED <<sessions, commits, participants, responses, registry,
                   reqs, bcR, bcC, creates>>

\* first message is join: handle_join_after_accept up to its session query
ConnFirstJoin(c) ==
    /\ conns[c].pc = "accepted"
    /\ conns' = [conns EXCEPT ![c].pc = "join_lookup"]
    /\ UNCHANGED <<sessions, commits, participants, responses, registry,
                   reqs, bcR, bcC, inbox, creates>>

\* session = await get_session_for_websocket(...); existence and status checks;
\* then create_participant is awaited
ConnJoinLookup(c) ==
    /\ conns[c].pc = "join_lookup"
    /\ LET sid == get_session_by_join_code(conns[c].join_code)
       IN IF sid = NoId THEN Reject(c, "session_not_found", 4004)
          ELSE IF sessions[sid].status = ENDED THEN Reject(c, "session_ended", 4003)
          ELSE /\ conns' = [conns EXCEPT ![c].pc = "join_create", ![c].sid = sid,
                                         ![c].status = sessions[sid].status,
                                         ![c].slide_id = sessions[sid].current_slide_id]
               /\ UNCHANGED inbox
    /\ UNCHANGED <<sessions, commits, participants, responses, registry,
                   reqs, bcR, bcC, creates>>

SessionState(cn, count) ==
    [Message("session_state", "state", NoId) EXCEPT
        !.status = cn.status, !.slide = cn.slide_id, !.count = count]

\* create_participant commits; the Connection is appended to the registry;
\* the snapshot is sent to the new socket
ConnJoinCreate(c) ==
    /\ conns[c].pc = "join_create"
    /\ LET pid == Len(participants) + 1
           connection == [connection_id |-> c, role |-> AUDIENCE, participant_id |-> pid]
           reg == Register(registry, conns[c].join_code, connection)
       IN /\ participants' = Append(participants,
                 [session_id |-> conns[c].sid, connection_id |-> c, left_at |-> NoTime])
          /\ registry' = reg
          /\ inbox' = Send(inbox, c,
                 SessionState(conns[c], get_participant_count(reg, conns[c].join_code)))
          /\ conns' = [conns EXCEPT ![c].pc = "join_sent", ![c].participant_id = pid,
                          ![c].role = AUDIENCE,
                          ![c].participant_count = get_participant_count(reg, conns[c].join_code)]
    /\ UNCHANGED <<sessions, commits, responses, reqs, bcR, bcC, creates>>

\* a connection's broadcast loop is over: handle_join returns the connection
\* (main loop), the finally block of a leaving connection ends the coroutine
ConnFinish(c) ==
    /\ conns' = [conns EXCEPT ![c] =
                   IF @.pc \in {"join_sent", "join_bcast"}
                   THEN [@ EXCEPT !.pc = "joined", !.connection = TRUE, !.sid = NoId,
                                  !.status = "", !.slide_id = NoSlide, !.participant_count = 0]
                   ELSE Closed([@ EXCEPT !.after_removal = 0], @.close_code)]
    /\ bcC' = [bcC EXCEPT ![c] = NoBc]

\* broadcast participant_joined to the others, up to the first send
ConnJoinBroadcast(c) ==
    /\ conns[c].pc = "join_sent"
    /\ LET message == [Message("participant_joined", "presence", c) EXCEPT
                          !.count = conns[c].participant_count]
           b == BcStart(conns[c].join_code, message, c)
       IN IF Target(b) = 0
          THEN /\ ConnFinish(c)
               /\ UNCHANGED inbox
          ELSE /\ inbox' = Send(inbox, TargetId(b), message)
               /\ bcC' = [bcC EXCEPT ![c] = [b EXCEPT !.idx = Target(b)]]
               /\ conns' = [conns EXCEPT ![c].pc = "join_bcast"]
    /\ UNCHANGED <<sessions, commits, participants, responses, registry,
                   reqs, bcR, creates>>

\* a connection's broadcast loop resumes after a send
ConnBroadcastNext(c) ==
    /\ conns[c].pc \in {"join_bcast", "left_bcast"}
    /\ LET b == bcC[c]
       IN IF Target(b) = 0
          THEN /\ ConnFinish(c)
               /\ UNCHANGED inbox
          ELSE /\ inbox' = Send(inbox, TargetId(b), b.msg)
               /\ bcC' = [bcC EXCEPT ![c].idx = Target(b)]
               /\ UNCHANGED conns
    /\ UNCHANGED <<sessions, commits, participants, responses, registry,
                   reqs, bcR, creates>>

\* first message is join_speaker: the token checks of
\* handle_join_speaker_after_accept (a None payload makes payload.get raise,
\* which the except clause answers like a missing sub), then its session
\* query is awaited
ConnFirstJoinSpeaker(c, token) ==
    /\ conns[c].pc = "accepted"
    /\ LET payload == decode_token(token)
       IN IF token = "none" THEN Reject(c, "auth_required", 4001)
          ELSE IF ~payload.decoded \/ payload.sub = ""
          THEN Reject(c, "invalid_token", 4001)
          ELSE /\ conns' = [conns EXCEPT ![c].pc = "speaker_lookup",
                                         ![c].speaker_id = payload.sub]
               /\ UNCHANGED inbox
    /\ UNCHANGED <<sessions, commits, participants, responses, registry,
                   reqs, bcR, bcC, creates>>

\* the client of a join_speaker goes away while the handler awaits its
\* session query
ConnDropEarly(c) ==
    /\ conns[c].pc = "speaker_lookup"
    /\ ~conns[c].broken
    /\ conns' = [conns EXCEPT ![c].broken = TRUE]
    /\ UNCHANGED <<sessions, commits, participants, responses, registry,
                   reqs, bcR, bcC, inbox, creates>>

\* session query done: existence, ownership, speaker slot; then the Connection
\* is appended and the snapshot sent, with no await in between. On a broken
\* transport the send_json of the reply or of the snapshot raises: the handler
\* never returns its Connection, and the finally block of websocket_session,
\* whose connection variable is still None, unregisters nothing
ConnSpeakerLookup(c) ==
    /\ conns[c].pc = "speaker_lookup"
    /\ LET sid == get_session_by_join_code(conns[c].join_code)
           connection == [connection_id |-> c, role |-> SPEAKER, participant_id |-> NoId]
           reg == Register(registry, conns[c].join_code, connection)
       IN IF conns[c].broken
          THEN /\ registry' =
                    IF /\ sid # NoId
                       /\ Presentation(sessions[sid].presentation_id).speaker_id
                             = conns[c].speaker_id
                       /\ get_speaker_connection(registry, conns[c].join_code)
                             = NoConnection
                    THEN reg ELSE registry
               /\ inbox' = [inbox EXCEPT ![c] = <<>>]
               /\ conns' = [conns EXCEPT ![c] = Closed(@, NoClose)]
          ELSE IF sid = NoId
          THEN Reject(c, "session_not_found", 4004) /\ UNCHANGED registry
          ELSE IF Presentation(sessions[sid].presentation_id).speaker_id # conns[c].speaker_id
          THEN Reject(c, "forbidden", 4003) /\ UNCHANGED registry
          ELSE IF get_speaker_connection(registry, conns[c].join_code) # NoConnection
          THEN Reject(c, "speaker_already_connected", 4002) /\ UNCHANGED registry
          ELSE /\ registry' = reg
               /\ inbox' = Send(inbox, c,
                     SessionState([conns[c] EXCEPT !.status = sessions[sid].status,
                                       !.slide_id = sessions[sid].current_slide_id],
                                  get_participant_count(reg, conns[c].join_code)))
               /\ conns' = [conns EXCEPT ![c].pc = "joined", ![c].connection = TRUE,
                                         ![c].role = SPEAKER, ![c].speaker_id = ""]
    /\ UNCHANGED <<sessions, commits, participants, responses,
                   reqs, bcR, bcC, creates>>

\* the Connection of this connection_id in the registry list, or None
OwnConnection(c) ==
    LET connections == get_session_connections(registry, conns[c].join_code)
        i == IndexOf(connections, c)
    IN IF i = 0 THEN NoConnection ELSE connections[i]

\* "not connection or connection.role != AUDIENCE" is the forbidden case
may_submit(connection) == connection # NoConnection /\ connection.role = AUDIENCE

\* a paused or pending session also takes responses
session_is_active_NotEnded(sid) == sid # NoId /\ sessions[sid].status # ENDED

\* "not session or session.status != 'active'" is the session_not_active case
session_is_active(sid) == sid # NoId /\ sessions[sid].status = ACTIVE

\* main loop receives submit_response: field check and role check of
\* handle_submit_response, then its session query is awaited
ConnSubmit(c, slide_id, has_content) ==
    /\ conns[c].pc = "joined"
    /\ conns[c].received < MaxMsgs
    /\ LET data == [slide_id |-> slide_id, content |-> has_content]
           cn == [conns[c] EXCEPT !.received = @ + 1, !.data = data]
       IN IF slide_id = NoSlide \/ ~has_content
          THEN /\ inbox' = Send(inbox, c, Error("invalid_request"))
               /\ conns' = [conns EXCEPT ![c] = cn]
          ELSE IF ~may_submit(OwnConnection(c))
          THEN /\ inbox' = Send(inbox, c, Error("forbidden"))
               /\ conns' = [conns EXCEPT ![c] = cn]
          ELSE /\ conns' = [conns EXCEPT ![c] =
                                [cn EXCEPT !.pc = "submit_lookup", !.slide_id = slide_id]]
               /\ UNCHANGED inbox
    /\ UNCHANGED <<sessions, commits, participants, responses, registry,
                   reqs, bcR, bcC, creates>>

\* session query done: must exist and be active; then the Response is added
\* and db.commit() awaited
ConnSubmitLookup(c) ==
    /\ conns[c].pc = "submit_lookup"
    /\ LET sid == get_session_by_join_code(conns[c].join_code)
       IN IF ~session_is_active(sid)
          THEN /\ inbox' = Send(inbox, c, Error("session_not_active"))
               /\ conns' = [conns EXCEPT ![c].pc = "joined", ![c].slide_id = NoSlide,
                                         ![c].data = NoData]
          ELSE /\ conns' = [conns EXCEPT ![c].pc = "submit_commit", ![c].sid = sid,
                                         ![c].data = NoData]
               /\ UNCHANGED inbox
    /\ UNCHANGED <<sessions, commits, participants, responses, registry,
                   reqs, bcR, bcC, creates>>

\* db.commit() of the Response; db.refresh(response) is awaited
ConnSubmitCommit(c) ==
    /\ conns[c].pc = "submit_commit"
    /\ responses' = Append(responses,
          [session_id |-> conns[c].sid, slide_id |-> conns[c].slide_id,
           participant_id |-> conns[c].participant_id, is_ai_response |-> FALSE])
    /\ conns' = [conns EXCEPT ![c].pc = "submit_refresh"]
    /\ UNCHANGED <<sessions, commits, participants, registry,
                   reqs, bcR, bcC, inbox, creates>>

\* the notification sent to the first connection of the list, whatever its role
broadcast_to_speaker_FirstConnection(inb, join_code, message) ==
    LET connections == get_session_connections(registry, join_code)
    IN IF connections # <<>> THEN Send(inb, connections[1].connection_id, message) ELSE inb

\* send_json of broadcast_to_speaker: to the speaker Connection if there is one
broadcast_to_speaker(inb, join_code, message) ==
    LET speaker == get_speaker_connection(registry, join_code)
    IN IF speaker # NoConnection THEN Send(inb, speaker.connection_id, message) ELSE inb

\* refresh done: response_received goes to the speaker; back to the main loop
ConnSubmitNotify(c) ==
    /\ conns[c].pc = "submit_refresh"
    /\ inbox' = broadcast_to_speaker(inbox, conns[c].join_code,
                   [Message("response_received", "response", c) EXCEPT
                       !.slide = conns[c].slide_id])
    /\ conns' = [conns EXCEPT ![c].pc = "joined", ![c].sid = NoId, ![c].slide_id = NoSlide]
    /\ UNCHANGED <<sessions, commits, participants, responses, registry,
                   reqs, bcR, bcC, creates>>

\* a pong sent to every connection of the sender's session
handle_ping_ToSession(inb, c) ==
    LET connections == get_session_connections(registry, conns[c].join_code)
    IN [d \in DOMAIN inb |->
          IF IndexOf(connections, d) # 0
          THEN Append(inb[d], Message("pong", "pong", NoId)) ELSE inb[d]]

\* handle_ping: await websocket.send_json(pong)
handle_ping(inb, c) == Send(inb, c, Message("pong", "pong", NoId))

\* the main loop receives a ping and answers it
ConnPing(c) ==
    /\ conns[c].pc = "joined"
    /\ ~conns[c].broken
    /\ conns[c].received < MaxMsgs
    /\ inbox' = handle_ping(inbox, c)
    /\ conns' = [conns EXCEPT ![c].received = @ + 1]
    /\ UNCHANGED <<sessions, commits, participants, responses, registry,
                   reqs, bcR, bcC, creates>>

\* the main loop receives an object of a type that is neither
\* submit_response nor ping: logger.warning, next iteration
ConnUnknown(c) ==
    /\ conns[c].pc = "joined"
    /\ ~conns[c].broken
    /\ conns[c].received < MaxMsgs
    /\ conns' = [conns EXCEPT ![c].received = @ + 1]
    /\ UNCHANGED <<sessions, commits, participants, responses, registry,
                   reqs, bcR, bcC, inbox, creates>>

\* the peer goes away while the main loop awaits a message: the finally block
\* unregisters the connection; an audience connection then awaits
\* mark_participant_left
ConnDisconnect(c) ==
    /\ conns[c].pc = "joined"
    /\ LET key == Upper(conns[c].join_code)
           removed == Removed(registry, conns[c].join_code, c)
           reg == disconnect(registry, conns[c].join_code, c)
           emptied == registry[key] # <<>> /\ reg[key] = <<>>
       IN /\ registry' = reg
          /\ bcR' = IF emptied THEN DetachAll(bcR, key, <<>>) ELSE bcR
          /\ bcC' = IF emptied THEN DetachAll(bcC, key, <<>>) ELSE bcC
          /\ conns' = [conns EXCEPT ![c] =
                IF removed # NoConnection /\ removed.role = AUDIENCE
                THEN [@ EXCEPT !.pc = "left_mark",
                               !.after_removal =
                                   get_participant_count(reg, conns[c].join_code)]
                ELSE Closed(@, 1000)]
          /\ inbox' = [inbox EXCEPT ![c] = <<>>]
    /\ UNCHANGED <<sessions, commits, participants, responses, reqs, creates>>

\* the transport of a joined connection breaks while its handler has not
\* yet been resumed with WebSocketDisconnect: the connection stays registered
\* and send_json to it raises
ConnDrop(c) ==
    /\ conns[c].pc = "joined"
    /\ ~conns[c].broken
    /\ conns' = [conns EXCEPT ![c].broken = TRUE]
    /\ UNCHANGED <<sessions, commits, participants, responses, registry,
                   reqs, bcR, bcC, inbox, creates>>

\* mark_participant_left commits; the count is read and participant_left is
\* broadcast to the session, up to the first send
ConnMarkLeft(c) ==
    /\ conns[c].pc = "left_mark"
    /\ participants' = [participants EXCEPT ![conns[c].participant_id] =
                           [@ EXCEPT !.left_at = Now, !.connection_id = NoId]]
    /\ LET count == get_participant_count(registry, conns[c].join_code)
           message == [Message("participant_left", "presence", c) EXCEPT !.count = count]
           b == BcStart(conns[c].join_code, message, NoId)
       IN IF Target(b) = 0
          THEN /\ conns' = [conns EXCEPT ![c] = Closed([@ EXCEPT !.after_removal = 0], 1000)]
               /\ UNCHANGED <<inbox, bcC>>
          ELSE /\ inbox' = Send(inbox, TargetId(b), message)
               /\ bcC' = [bcC EXCEPT ![c] = [b EXCEPT !.idx = Target(b)]]
               /\ conns' = [conns EXCEPT ![c].pc = "left_bcast", ![c].close_code = 1000]
    /\ UNCHANGED <<sessions, commits, responses, registry, reqs, bcR, creates>>

----------------------------------------------------------------------------
(* Create-session: api/sessions.py create_session, services/session.py *)

NoResponse == [status_code |-> 0, detail |-> ""]

NoCreate == [pc |-> "idle", presentation_id |-> "", attempt |-> 0, code |-> <<>>,
             result |-> "", response |-> NoResponse]

\* what the create endpoint answers: 201 with the session; a ValueError of
\* the service, whichever it is, becomes 404 with the error's text as detail;
\* any other exception is not handled by the endpoint
create_session_response(result) ==
    CASE result = "ok" -> [status_code |-> 201, detail |-> ""]
      [] result \in {"NotFound", "ExhaustedRetries"} ->
            [status_code |-> 404, detail |-> result]
      [] OTHER -> [status_code |-> 500, detail |-> ""]

PresentationInputs == PresentationIds \cup {"p9"}

\* select(Presentation).where(id == presentation_id, speaker_id == speaker_id)
PresentationOwned(presentation_id, speaker_id) ==
    /\ presentation_id \in PresentationIds
    /\ Presentation(presentation_id).speaker_id = speaker_id

\* presentation.slides[0].id without the sort, or None without slides
FirstSlide_AsStored(presentation_id) ==
    IF Presentation(presentation_id).slides = <<>> THEN NoSlide
    ELSE Presentation(presentation_id).slides[1]

\* sorted(presentation.slides, key=order_index)[0].id, or None without slides
FirstSlide(presentation_id) ==
    LET slides == SlidesOf(presentation_id)
    IN IF slides = {} THEN NoSlide
       ELSE CHOOSE x \in slides : \A y \in slides : OrderIndex(x) <= OrderIndex(y)

\* the presentation query of create_session; then the first draw's check is awaited
CreateBegin(k, presentation_id, speaker_id) ==
    /\ creates[k].pc = "idle"
    /\ creates' = [creates EXCEPT ![k] =
          IF PresentationOwned(presentation_id, speaker_id)
          THEN [@ EXCEPT !.pc = "draw", !.presentation_id = presentation_id]
          ELSE [@ EXCEPT !.pc = "done", !.result = "NotFound",
                         !.response = create_session_response("NotFound")]]
    /\ UNCHANGED <<sessions, commits, participants, responses, registry,
                   reqs, bcR, conns, bcC, inbox>>

\* one pass of generate_unique_join_code's loop: code drawn, store checked
CreateDraw(k, code) ==
    /\ creates[k].pc = "draw"
    /\ creates' = [creates EXCEPT ![k] =
          IF ~check_join_code_exists(code)
          THEN [@ EXCEPT !.pc = "insert", !.code = code, !.attempt = 0]
          ELSE IF @.attempt + 1 < MaxAttempts
          THEN [@ EXCEPT !.attempt = @ + 1]
          ELSE [@ EXCEPT !.pc = "done", !.result = "ExhaustedRetries",
                         !.response = create_session_response("ExhaustedRetries"),
                         !.attempt = 0, !.presentation_id = ""]]
    /\ UNCHANGED <<sessions, commits, participants, responses, registry,
                   reqs, bcR, conns, bcC, inbox>>

\* join_code without its unique index: every INSERT goes through
InsertAllowed_NoIndex(code) == TRUE

\* a unique index over the sessions that are not ended only
InsertAllowed_NotEnded(code) == ~check_join_code_exists(code)

\* the unique index ix_sessions_join_code: does the INSERT go through?
InsertAllowed(code) == \A i \in SessionIds : sessions[i].join_code # code

\* db.add(session); await db.commit()
CreateInsert(k) ==
    /\ creates[k].pc = "insert"
    /\ IF InsertAllowed(creates[k].code)
       THEN /\ sessions' = Append(sessions,
                  [presentation_id |-> creates[k].presentation_id,
                   join_code |-> creates[k].code,
                   current_slide_id |-> FirstSlide(creates[k].presentation_id),
                   status |-> PENDING, started_at |-> NoTime, ended_at |-> NoTime])
            /\ commits' = Append(commits, [req |-> NoId, op |-> "create", sid |-> NoId])
            /\ creates' = [creates EXCEPT ![k] =
                  [@ EXCEPT !.pc = "done", !.result = "ok",
                            !.response = create_session_response("ok"),
                            !.presentation_id = ""]]
       ELSE /\ creates' = [creates EXCEPT ![k] =
                  [@ EXCEPT !.pc = "done", !.result = "IntegrityError",
                            !.response = create_session_response("IntegrityError"),
                            !.presentation_id = ""]]
            /\ UNCHANGED <<sessions, commits>>
    /\ UNCHANGED <<participants, responses, registry, reqs, bcR, conns, bcC, inbox>>

----------------------------------------------------------------------------
(* Specifications *)

EmptyRegistry == [k \in RegistryKeys |-> <<>>]

TheCode == <<"A","B","2","C","3","D">>

\* the session-row commits that lead a created session to a status
History(status) ==
    LET e(op) == [req |-> NoId, op |-> op, sid |-> 1]
    IN CASE status = PENDING -> <<>>
         [] status = ACTIVE  -> <<e("start")>>
         [] status = PAUSED  -> <<e("start"), e("pause")>>
         [] status = ENDED   -> <<e("start"), e("end")>>

\* the row of a session of presentation p1 that went through History(status)
SessionRow(status) ==
    [presentation_id |-> "p1", join_code |-> TheCode,
     current_slide_id |-> FirstSlide("p1"), status |-> status,
     started_at |-> IF status = PENDING THEN NoTime ELSE 1,
     ended_at |-> IF status = ENDED THEN 2 ELSE NoTime]

InitIdle ==
    /\ responses = <<>>
    /\ reqs = [r \in Reqs |-> NoReq]
    /\ bcR = [r \in Reqs |-> NoBc]
    /\ bcC = [c \in Conns |-> NoBc]
    /\ inbox = [c \in Conns |-> <<>>]
    /\ creates = [k \in Creates |-> NoCreate]

InitNoConnections ==
    /\ participants = <<>>
    /\ registry = EmptyRegistry
    /\ conns = [c \in Conns |-> NoConn]

\* one session exists, in any status of its lifecycle; nobody is connected
Init ==
    /\ \E status \in SessionStatus :
          sessions = <<SessionRow(status)>> /\ commits = History(status)
    /\ InitNoConnections
    /\ InitIdle

Control ==
    \/ \E r \in Reqs, op \in Ops, sid \in 1..(Len(sessions) + 1), sp \in Speakers :
          \E sl \in (IF op = "slide" THEN SlideInputs ELSE {NoSlide}) :
             ReqLoad(r, op, sid, sp, sl)
    \/ \E r \in Reqs : ReqService(r)
    \/ \E r \in Reqs : ReqBroadcast(r)
    \/ \E r \in Reqs : ReqBroadcastNext(r)

Handshake ==
    \/ \E c \in NewConns, code \in UrlCodes : ConnAccept(c, code)
    \/ \E c \in Conns, first \in FirstInvalid : ConnFirstInvalid(c, first)
    \/ \E c \in Conns : ConnFirstJoin(c)
    \/ \E c \in Conns : ConnJoinLookup(c)
    \/ \E c \in Conns : ConnJoinCreate(c)
    \/ \E c \in Conns : ConnJoinBroadcast(c)
    \/ \E c \in Conns, token \in Tokens : ConnFirstJoinSpeaker(c, token)
    \/ \E c \in Conns : ConnSpeakerLookup(c)

\* submit_response messages <<slide_id, content is not None>>: without
\* slide_id, without content, with both
SubmitInputs == { <<NoSlide, TRUE>>, <<"s1", FALSE>>, <<"s1", TRUE>> }

Submit ==
    \/ \E c \in Conns, m \in SubmitInputs : ConnSubmit(c, m[1], m[2])
    \/ \E c \in Conns : ConnSubmitLookup(c)
    \/ \E c \in Conns : ConnSubmitCommit(c)
    \/ \E c \in Conns : ConnSubmitNotify(c)

Leave ==
    \/ \E c \in Conns : ConnBroadcastNext(c)
    \/ \E c \in Conns : ConnDisconnect(c)
    \/ \E c \in Conns : ConnMarkLeft(c)

\* websockets opening and leaving while the presenter ends the session
Next ==
    \/ Handshake
    \/ Leave
    \/ ReqLoad(1, "end", 1, "spk1", NoSlide)
    \/ ReqService(1)
    \/ ReqBroadcast(1)
    \/ ReqBroadcastNext(1)

Spec == Init /\ [][Next]_vars

\* the session's connections are in place: the speaker and then the audience
\* joined while the session was in its current status
JoinedConnection(c) ==
    [connection_id |-> c, role |-> IF c = 1 THEN SPEAKER ELSE AUDIENCE,
     participant_id |-> IF c = 1 THEN NoId ELSE c - 1]

InitJoined ==
    /\ \E status \in SessionStatus \ {ENDED} :
          sessions = <<SessionRow(status)>> /\ commits = History(status)
    /\ participants = [i \in 1..MaxAudience |->
                         [session_id |-> 1, connection_id |-> i + 1, left_at |-> NoTime]]
    /\ registry = [EmptyRegistry EXCEPT
                       ![TheCode] = [c \in JoinedConns |-> JoinedConnection(c)]]
    /\ conns = [c \in Conns |->
                  IF c \in JoinedConns
                  THEN [NoConn EXCEPT !.pc = "joined", !.join_code = TheCode,
                                      !.connection = TRUE,
                                      !.role = JoinedConnection(c).role,
                                      !.participant_id = JoinedConnection(c).participant_id]
                  ELSE NoConn]
    /\ InitIdle

\* concurrent control requests and the expiry job on a session with listeners
NextControl ==
    \/ Control
    \/ \E expired \in SUBSET SessionIds : Cleanup(expired)

\* the session has its listeners, or nobody is connected to it
InitControl == InitJoined \/ Init

SpecControl == InitControl /\ [][NextControl]_vars

\* the joined connections talk and leave while the presenter ends the session
NextJoined ==
    \/ Submit
    \/ Leave
    \/ ReqLoad(1, "end", 1, "spk1", NoSlide)
    \/ ReqService(1)
    \/ ReqBroadcast(1)
    \/ ReqBroadcastNext(1)

SpecJoined == InitJoined /\ [][NextJoined]_vars

\* one more websocket opens on the joined session while the others leave
NextLate ==
    \/ \E code \in UrlCodes : ConnAccept(LateConn, code)
    \/ \E first \in FirstInvalid : ConnFirstInvalid(LateConn, first)
    \/ ConnFirstJoin(LateConn)
    \/ ConnJoinLookup(LateConn)
    \/ ConnJoinCreate(LateConn)
    \/ ConnJoinBroadcast(LateConn)
    \/ \E token \in Tokens : ConnFirstJoinSpeaker(LateConn, token)
    \/ ConnSpeakerLookup(LateConn)
    \/ Leave

SpecLate == InitJoined /\ [][NextLate]_vars

\* transports break and connections leave while the presenter runs one
\* lifecycle operation on the joined session
NextFail ==
    \/ \E c \in Conns : ConnDrop(c)
    \/ Leave
    \/ \E op \in Ops \ {"slide"} : ReqLoad(1, op, 1, "spk1", NoSlide)
    \/ ReqService(1)
    \/ ReqBroadcast(1)
    \/ ReqBroadcastNext(1)

SpecFail == InitJoined /\ [][NextFail]_vars

\* websockets open on the session while the presenter runs one lifecycle
\* operation
NextView ==
    \/ Handshake
    \/ \E c \in Conns : ConnBroadcastNext(c)
    \/ \E op \in Ops \ {"slide"} : ReqLoad(1, op, 1, "spk1", NoSlide)
    \/ ReqService(1)
    \/ ReqBroadcast(1)
    \/ ReqBroadcastNext(1)

SpecView == Init /\ [][NextView]_vars

\* the joined connections ping, send messages of unknown types and leave
NextLoop ==
    \/ \E c \in Conns : ConnPing(c)
    \/ \E c \in Conns : ConnUnknown(c)
    \/ Leave

SpecLoop == InitJoined /\ [][NextLoop]_vars

\* the handler of a connection whose transport broke is resumed with
\* WebSocketDisconnect and runs its finally block
ConnNotice(c) == conns[c].broken /\ ConnDisconnect(c)

\* what the event loop runs when it resumes a coroutine that is ready: a
\* handler whose transport broke, a finally block, a request past its load
Resume ==
    \/ \E c \in Conns : ConnNotice(c)
    \/ \E c \in Conns : ConnMarkLeft(c)
    \/ \E c \in Conns : ConnBroadcastNext(c)
    \/ ReqService(1)
    \/ ReqBroadcast(1)
    \/ ReqBroadcastNext(1)

\* transports break while the presenter ends the session
NextLive ==
    \/ \E c \in Conns : ConnDrop(c)
    \/ ReqLoad(1, "end", 1, "spk1", NoSlide)
    \/ Resume

\* the event loop does not stop while a coroutine is ready
SpecLive == InitJoined /\ [][NextLive]_vars /\ WF_vars(Resume)

\* create-session requests racing with each other and with start/end
InitCreate == sessions = <<>> /\ commits = <<>> /\ InitNoConnections /\ InitIdle

NextCreate ==
    \/ \E k \in Creates, p \in PresentationInputs, sp \in Speakers : CreateBegin(k, p, sp)
    \/ \E k \in Creates, code \in DrawCodes : CreateDraw(k, code)
    \/ \E k \in Creates : CreateInsert(k)
    \/ \E r \in Reqs, op \in {"start", "end"}, sid \in SessionIds, sp \in Speakers :
          ReqLoad(r, op, sid, sp, NoSlide)
    \/ \E r \in Reqs : ReqService(r)
    \/ \E r \in Reqs : ReqBroadcast(r)

SpecCreate == InitCreate /\ [][NextCreate]_vars

\* sessions are created while the presenters change the current slide
NextSlides ==
    \/ \E k \in Creates, p \in PresentationInputs, sp \in Speakers : CreateBegin(k, p, sp)
    \/ \E k \in Creates, code \in DrawCodes : CreateDraw(k, code)
    \/ \E k \in Creates : CreateInsert(k)
    \/ \E r \in Reqs, sid \in SessionIds, sp \in Speakers, sl \in SlideInputs :
          ReqLoad(r, "slide", sid, sp, sl)
    \/ \E r \in Reqs : ReqService(r)
    \/ \E r \in Reqs : ReqBroadcast(r)

SpecSlides == InitCreate /\ [][NextSlides]_vars

\* the joined connections send submit_response messages naming any slide row
\* (s3 is a slide of another presenter's presentation), or none
NextAnswers ==
    \/ \E c \in Conns, slide_id \in SlideInputs \cup {NoSlide}, has_content \in BOOLEAN :
          ConnSubmit(c, slide_id, has_content)
    \/ \E c \in Conns : ConnSubmitLookup(c)
    \/ \E c \in Conns : ConnSubmitCommit(c)
    \/ \E c \in Conns : ConnSubmitNotify(c)

SpecAnswers == InitJoined /\ [][NextAnswers]_vars

\* transports break and are noticed while the first audience connection
\* answers and the presenter runs one lifecycle operation
NextReap ==
    \/ \E c \in Conns : ConnDrop(c)
    \/ \E c \in Conns : ConnNotice(c)
    \/ \E c \in Conns : ConnMarkLeft(c)
    \/ \E c \in Conns : ConnBroadcastNext(c)
    \/ ConnSubmit(2, "s1", TRUE)
    \/ ConnSubmitLookup(2)
    \/ ConnSubmitCommit(2)
    \/ ConnSubmitNotify(2)
    \/ \E op \in Ops \ {"slide"} : ReqLoad(1, op, 1, "spk1", NoSlide)
    \/ ReqService(1)
    \/ ReqBroadcast(1)
    \/ ReqBroadcastNext(1)

SpecReap == InitJoined /\ [][NextReap]_vars

\* the audience of the session is in place and no speaker is connected
InitAudience ==
    /\ \E status \in SessionStatus \ {ENDED} :
          sessions = <<SessionRow(status)>> /\ commits = History(status)
    /\ participants = [i \in 1..MaxAudience |->
                         [session_id |-> 1, connection_id |-> i + 1, left_at |-> NoTime]]
    /\ registry = [EmptyRegistry EXCEPT
                       ![TheCode] = [i \in 1..MaxAudience |-> JoinedConnection(i + 1)]]
    /\ conns = [c \in Conns |->
                  IF c \in JoinedConns \ {1}
                  THEN [NoConn EXCEPT !.pc = "joined", !.join_code = TheCode,
                                      !.connection = TRUE,
                                      !.role = AUDIENCE,
                                      !.participant_id = JoinedConnection(c).participant_id]
                  ELSE NoConn]
    /\ InitIdle

\* the websockets that are not in the audience
SpeakerConns == {1, LateConn}

\* presenters open websockets and send join_speaker, their transports break
\* during the handshake or after it, and the audience leaves
NextSlot ==
    \/ \E c \in SpeakerConns, code \in UrlCodes : ConnAccept(c, code)
    \/ \E c \in SpeakerConns, token \in Tokens : ConnFirstJoinSpeaker(c, token)
    \/ \E c \in SpeakerConns : ConnDropEarly(c)
    \/ \E c \in SpeakerConns : ConnSpeakerLookup(c)
    \/ \E c \in SpeakerConns : ConnDrop(c)
    \/ Leave

SpecSlot == InitAudience /\ [][NextSlot]_vars

OtherCode == <<"X","Y","7","Z","9","K">>

\* two sessions of spk1 with their connections in place: the speaker and one
\* audience connection under the first code, two audience connections under
\* the second
InitTwo ==
    /\ \E status \in {ACTIVE, PAUSED} :
          /\ sessions = <<SessionRow(status),
                          [SessionRow(ACTIVE) EXCEPT !.join_code = OtherCode]>>
          /\ commits = History(status)
    /\ participants = [i \in 1..(LateConn - 1) |->
                         [session_id |-> IF i = 1 THEN 1 ELSE 2,
                          connection_id |-> i + 1, left_at |-> NoTime]]
    /\ registry = [EmptyRegistry EXCEPT
                       ![TheCode] = <<JoinedConnection(1), JoinedConnection(2)>>,
                       ![OtherCode] = <<JoinedConnection(3), JoinedConnection(4)>>]
    /\ conns = [c \in Conns |->
                  [NoConn EXCEPT !.pc = "joined",
                                 !.join_code = IF c <= 2 THEN TheCode ELSE OtherCode,
                                 !.connection = TRUE,
                                 !.role = JoinedConnection(c).role,
                                 !.participant_id = JoinedConnection(c).participant_id]]
    /\ InitIdle

\* connections of both sessions break and leave while the presenter runs one
\* lifecycle operation on either session
NextTwo ==
    \/ \E c \in Conns : ConnDrop(c)
    \/ Leave
    \/ \E op \in Ops \ {"slide"}, sid \in SessionIds : ReqLoad(1, op, sid, "spk1", NoSlide)
    \/ ReqService(1)
    \/ ReqBroadcast(1)
    \/ ReqBroadcastNext(1)

SpecTwo == InitTwo /\ [][NextTwo]_vars

----------------------------------------------------------------------------
(* Properties *)

\* the transition table of the lifecycle, as pairs <<from, to>>
TransitionTable ==
    { <<PENDING, ACTIVE>>, <<ACTIVE, PAUSED>>, <<ACTIVE, ENDED>>,
      <<PAUSED, ACTIVE>>, <<PAUSED, ENDED>> }

\* the status a lifecycle request asks for
Requested(op) ==
    CASE op = "start" -> ACTIVE [] op = "end" -> ENDED
      [] op = "pause" -> PAUSED [] op = "resume" -> ACTIVE [] OTHER -> ""

\* the event each control operation announces
MatchingEvent(op) ==
    CASE op = "start" -> "session_started" [] op = "pause" -> "session_paused"
      [] op = "resume" -> "session_resumed" [] op = "end" -> "session_ended"
      [] op = "slide" -> "slide_changed" [] OTHER -> ""

AudienceCount(list) == Cardinality({i \in DOMAIN list : list[i].role = AUDIENCE})

SpeakerCount(list) == Cardinality({i \in DOMAIN list : list[i].role = SPEAKER})

\* c is in the registry under its (upper-cased) code with this role
RegisteredAs(c, role) ==
    /\ conns[c].join_code # <<>>
    /\ \E i \in DOMAIN registry[Upper(conns[c].join_code)] :
          /\ registry[Upper(conns[c].join_code)][i].connection_id = c
          /\ registry[Upper(conns[c].join_code)][i].role = role

\* the session c's URL code names exists and its stored status is active
StoredActive(c) ==
    \E i \in SessionIds : /\ sessions[i].join_code = Upper(conns[c].join_code)
                          /\ sessions[i].status = ACTIVE

(* C1: every change of a session's stored status, by start, pause, resume,   *)
(* end, changeSlide or the expired-session cleanup, is one of the            *)
(* transitions of the table.                                                 *)
C1_TableTransitionsOnly ==
    [][\A i \in DOMAIN sessions :
          sessions'[i].status # sessions[i].status
             => <<sessions[i].status, sessions'[i].status>> \in TransitionTable]_vars

(* C7: a start, pause, resume or end request whose requested transition      *)
(* (from the status it loaded) is not in the table fails with              *)
(* InvalidTransition at its service call: the session rows, the inboxes and  *)
(* the broadcast loops are unchanged and the request never broadcasts.       *)
C7_InvalidTransitionRejected ==
    [][\A r \in Reqs :
          /\ ( /\ reqs[r].pc = "loaded"
               /\ reqs'[r] # reqs[r]
               /\ reqs[r].op \in {"start", "end", "pause", "resume"}
               /\ <<reqs[r].session.status, Requested(reqs[r].op)>> \notin TransitionTable )
             => /\ reqs'[r].pc = "done"
                /\ reqs'[r].result = "InvalidTransition"
                /\ sessions' = sessions
                /\ inbox' = inbox
                /\ bcR' = bcR
          /\ reqs[r].result = "InvalidTransition"
             => /\ reqs'[r] = reqs[r]
                /\ reqs[r].broadcasts = 0
                /\ \A c \in Conns : \A i \in DOMAIN inbox[c] :
                      ~(inbox[c][i].kind = "lifecycle" /\ inbox[c][i].src = r)]_vars

\* pause() or end() on the pending session has failed
C7_Witness ==
    \E r \in Reqs : /\ reqs[r].result = "InvalidTransition"
                    /\ reqs[r].op \in {"pause", "end"}
                    /\ sessions[1].status = PENDING

(* C8: once a session's stored status is ended it never changes again.       *)
C8_EndedIsTerminal ==
    [][\A i \in DOMAIN sessions :
          sessions[i].status = ENDED => sessions'[i].status = ENDED]_vars

\* position of request r's commit in the commit order, 0 before it commits
CommitPos(r) ==
    LET hit == {i \in DOMAIN commits : commits[i].req = r}
    IN IF hit = {} THEN 0 ELSE Min(hit)

(* C9: every connection receives the lifecycle and slide events of the       *)
(* session in the order in which the changes were committed.                 *)
C9_BroadcastsInCommitOrder ==
    \A c \in Conns : \A i, j \in DOMAIN inbox[c] :
        ( /\ i < j
          /\ inbox[c][i].kind = "lifecycle"
          /\ inbox[c][j].kind = "lifecycle" )
        => CommitPos(inbox[c][i].src) < CommitPos(inbox[c][j].src)

\* the lifecycle messages request r has sent to connection c
FromRequest(c, r) ==
    {i \in DOMAIN inbox[c] : inbox[c][i].kind = "lifecycle" /\ inbox[c][i].src = r}

(* C10: a request that succeeded has made exactly one broadcast, of the      *)
(* event matching its operation, which reached every connection registered   *)
(* for the code exactly once; a request broadcasts only after its commit,    *)
(* and a failed request sends nothing.                                       *)
C10_OneMatchingBroadcast ==
    \A r \in Reqs :
        /\ reqs[r].broadcasts \in {0, 1}
        /\ \A c \in Conns :
              /\ Cardinality(FromRequest(c, r)) <= reqs[r].broadcasts
              /\ \A i \in FromRequest(c, r) : inbox[c][i].type = MatchingEvent(reqs[r].op)
        /\ reqs[r].broadcasts = 1 => CommitPos(r) # 0
        /\ (reqs[r].pc = "done" /\ reqs[r].result = "ok")
              => /\ reqs[r].broadcasts = 1
                 /\ \A c \in Conns :
                       RegisteredAs(c, conns[c].role) => Cardinality(FromRequest(c, r)) = 1
        /\ (reqs[r].pc = "done" /\ reqs[r].result # "ok") => reqs[r].broadcasts = 0

\* a resume went through and its event reached a registered connection
C10_Witness ==
    \E r \in Reqs, c \in Conns :
        /\ reqs[r].pc = "done" /\ reqs[r].result = "ok" /\ reqs[r].op = "resume"
        /\ RegisteredAs(c, AUDIENCE)
        /\ \E i \in FromRequest(c, r) : inbox[c][i].type = "session_resumed"
        /\ \E q \in Reqs : reqs[q].pc = "done" /\ reqs[q].result # "ok"

\* the handler of c replied to its submit_response with an error in this step
Rejected(c) ==
    /\ Len(inbox'[c]) = Len(inbox[c]) + 1
    /\ inbox'[c][Len(inbox'[c])].type = "error"
    /\ inbox'[c][Len(inbox'[c])].code \in {"invalid_request", "forbidden", "session_not_active"}

\* the error code of the reply c got in this step
Reply(c) == inbox'[c][Len(inbox'[c])].code

\* the main loop of c took a submit_response message off the socket in this step
Received(c) == conns[c].pc = "joined" /\ conns'[c].received = conns[c].received + 1

\* the session query of c's handle_submit_response returned in this step
Looked(c) == conns[c].pc = "submit_lookup" /\ conns'[c].pc # "submit_lookup"

\* the Response of c was committed in this step
Persisted(c) ==
    /\ conns[c].pc = "submit_commit"
    /\ Len(responses') = Len(responses) + 1
    /\ responses'[Len(responses')].participant_id = conns[c].participant_id

WellFormed(data) == data.slide_id # NoSlide /\ data.content

C3_AtMostOneSpeaker ==
    \A key \in RegistryKeys :
        /\ SpeakerCount(registry[key]) <= 1
        /\ key # Upper(key) => registry[key] = <<>>

\* a speaker is registered and a second join_speaker, sent under the other
\* spelling of the code, was turned away
C3_Witness ==
    \E c, d \in Conns :
        /\ RegisteredAs(c, SPEAKER)
        /\ conns[d].error = "speaker_already_connected"
        /\ conns[c].join_code # Upper(conns[c].join_code)

(* C4: no two sessions whose status is not ended have the same join code.    *)
C4_UniqueActiveJoinCode ==
    \A i, j \in SessionIds :
        (i # j /\ sessions[i].status # ENDED /\ sessions[j].status # ENDED)
            => sessions[i].join_code # sessions[j].join_code

\* a create request passed its check and then lost the insert to a session
\* that holds the same code and is not ended
C4_Witness ==
    \E k \in Creates, i \in SessionIds :
        /\ creates[k].result = "IntegrityError"
        /\ sessions[i].join_code = creates[k].code
        /\ sessions[i].status # ENDED

\* number of response_received messages in an inbox
ResponseReceived(box) ==
    Cardinality({i \in DOMAIN box : box[i].type = "response_received"})

\* the handler of c made its broadcast_to_speaker call in this step
Notified(c) == conns[c].pc = "submit_refresh" /\ conns'[c].pc # "submit_refresh"

(* C5: the response_received notification of an accepted submit_response is  *)
(* appended to the inbox of the registered speaker connection and to no      *)
(* other inbox; without a registered speaker nothing is sent; no inbox gets  *)
(* a response_received in any other step.                                    *)
C5_SpeakerOnly ==
    [][/\ \A c \in Conns : Notified(c) =>
             \A d \in Conns :
                IF RegisteredAs(d, SPEAKER)
                THEN /\ Len(inbox'[d]) = Len(inbox[d]) + 1
                     /\ inbox'[d][Len(inbox'[d])].type = "response_received"
                     /\ inbox'[d][Len(inbox'[d])].src = c
                ELSE inbox'[d] = inbox[d]
       /\ \A d \in Conns :
             ResponseReceived(inbox'[d]) > ResponseReceived(inbox[d])
                => RegisteredAs(d, SPEAKER) /\ \E c \in Conns : Notified(c)]_vars

\* one of two registered audience connections submitted; the speaker got the
\* notification
C5_Witness ==
    /\ responses # <<>>
    /\ \E s \in Conns : RegisteredAs(s, SPEAKER) /\ ResponseReceived(inbox[s]) = 1
    /\ Cardinality({d \in Conns : RegisteredAs(d, AUDIENCE)}) = 2

(* C6 as stated: the disconnect of a registered audience connection leads to *)
(* one participant_left broadcast, and the participant_count it carries is   *)
(* the number of audience connections the registry held for the code right   *)
(* after the connection was removed.                                         *)
C6_CountAfterRemoval ==
    [][\A c \in Conns :
          /\ ( /\ conns[c].pc = "joined" /\ RegisteredAs(c, AUDIENCE)
               /\ conns'[c].pc \in {"left_mark", "closed"} )
                => /\ conns'[c].pc = "left_mark"
                   /\ conns'[c].after_removal
                         = AudienceCount(registry'[Upper(conns[c].join_code)])
          /\ ( conns[c].pc = "left_mark" /\ conns'[c].pc = "left_bcast" )
                => /\ bcC'[c].msg.type = "participant_left"
                   /\ bcC'[c].msg.count = conns[c].after_removal]_vars

\* the sessions stored under the code of c's URL, upper-cased
StoredSessions(c) ==
    {i \in SessionIds : sessions[i].join_code = Upper(conns[c].join_code)}

\* the speaker who owns the presentation of session i
OwnerOf(i) == Presentation(sessions[i].presentation_id).speaker_id

\* the session query of c's join_speaker returned in this step
SpeakerDecided(c) == conns[c].pc = "speaker_lookup" /\ conns'[c].pc # "speaker_lookup"

\* the handshake of c ended in this step with this error and close code
RejectedWith(c, code, close_code) ==
    /\ conns'[c].pc = "closed"
    /\ conns'[c].error = code
    /\ conns'[c].close_code = close_code
    /\ conns'[c].connection = FALSE

(* C11: when the join_speaker of a session's owner is decided while a        *)
(* speaker is registered for the code, it is rejected with                   *)
(* speaker_already_connected and closed with 4002; whatever its credential,  *)
(* a join_speaker decided while a speaker is registered is rejected, and in  *)
(* both cases the registry is unchanged.                                     *)
C11_SecondSpeakerRejected ==
    [][\A c \in Conns :
          ( /\ SpeakerDecided(c)
            /\ SpeakerCount(registry[Upper(conns[c].join_code)]) >= 1 )
          => /\ registry' = registry
             /\ conns'[c].pc = "closed"
             /\ (\E i \in StoredSessions(c) : OwnerOf(i) = conns[c].speaker_id)
                   => RejectedWith(c, "speaker_already_connected", 4002)]_vars

\* the late join_speaker was turned away and the registry still holds the
\* original speaker and both audience connections
C11_Witness ==
    /\ conns[LateConn].pc = "closed"
    /\ conns[LateConn].error = "speaker_already_connected"
    /\ conns[LateConn].close_code = 4002
    /\ registry[TheCode] = [c \in JoinedConns |-> JoinedConnection(c)]

\* the service call of request r, an op request, returned or raised in this step
Serviced(r, op) ==
    reqs[r].pc = "loaded" /\ reqs[r].op = op /\ reqs'[r].pc # "loaded"

\* the row request r loaded is still the stored row
Fresh(r) == reqs[r].session = sessions[reqs[r].sid]

\* the service call of r raised: nothing stored, the request is over
Failed(r, error) ==
    /\ sessions' = sessions
    /\ reqs'[r].pc = "done"
    /\ reqs'[r].result = error

\* a step of request r after its commit: the broadcast goes on or the request
\* returns its response, and with nobody registered it returns at once
BroadcastCompletes(r) ==
    (reqs[r].pc \in {"committed", "broadcast"} /\ reqs'[r] # reqs[r])
        => /\ reqs'[r].pc \in {"broadcast", "done"}
           /\ reqs'[r].pc = "done" => reqs'[r].result = "ok"
           /\ (reqs[r].pc = "committed" /\ registry[sessions[reqs[r].sid].join_code] = <<>>)
                 => reqs'[r].pc = "done" /\ inbox' = inbox

(* C12: start() on a session whose status is pending stores status active    *)
(* and started_at = now; on any other status it fails with InvalidTransition *)
(* and stores nothing; it never changes join_code, current_slide, ended_at   *)
(* or the presentation; its broadcast then runs to the end and the request   *)
(* returns ok, at once when no connection is registered.                     *)
C12_StartFromPending ==
    [][\A r \in Reqs :
          /\ Serviced(r, "start") =>
                LET old == sessions[reqs[r].sid]
                    new == sessions'[reqs[r].sid]
                IN /\ new.join_code = old.join_code
                   /\ new.current_slide_id = old.current_slide_id
                   /\ new.ended_at = old.ended_at
                   /\ new.presentation_id = old.presentation_id
                   /\ Fresh(r) =>
                         IF old.status = PENDING
                         THEN /\ new.status = ACTIVE
                              /\ new.started_at = Now /\ Now # NoTime
                              /\ reqs'[r].pc = "committed"
                         ELSE Failed(r, "InvalidTransition")
          /\ reqs[r].op = "start" => BroadcastCompletes(r)]_vars

\* c is in the registry list of its (upper-cased) code
Registered(c) ==
    /\ conns[c].join_code # <<>>
    /\ IndexOf(registry[Upper(conns[c].join_code)], c) # 0

\* request r returned its response in this step
Returned(r) == reqs[r].pc \in {"committed", "broadcast"} /\ reqs'[r].pc = "done"

(* C13: end() on a session whose status is active or paused stores status    *)
(* ended and ended_at = now, on any other status it fails and stores         *)
(* nothing; the request removes no registry entry before its broadcast loop  *)
(* is over; when it returns, every connection that was still registered for  *)
(* the code has been sent session_ended, and the registry then holds no      *)
(* entry for the code.                                                       *)
C13_EndedSentBeforeClose ==
    [][\A r \in Reqs :
          /\ (Serviced(r, "end") /\ Fresh(r)) =>
                LET old == sessions[reqs[r].sid]
                    new == sessions'[reqs[r].sid]
                IN IF old.status \in {ACTIVE, PAUSED}
                   THEN /\ new = [old EXCEPT !.status = ENDED, !.ended_at = Now]
                        /\ Now # NoTime
                        /\ reqs'[r].pc = "committed"
                   ELSE Failed(r, "InvalidTransition")
          /\ (reqs[r].op = "end" /\ reqs'[r] # reqs[r] /\ ~Returned(r))
                => registry' = registry
          /\ (reqs[r].op = "end" /\ Returned(r)) =>
                /\ \A c \in Conns :
                      Registered(c) =>
                         \E i \in DOMAIN inbox'[c] :
                            /\ inbox'[c][i].type = "session_ended"
                            /\ inbox'[c][i].src = r
                /\ registry'[sessions[1].join_code] = <<>>]_vars

(* C14: resume() on a session whose status is paused stores status active    *)
(* and nothing else; on a pending, active or ended session it fails and      *)
(* stores nothing; it never changes started_at, ended_at, current_slide or   *)
(* join_code.                                                                *)
C14_ResumeFromPaused ==
    [][\A r \in Reqs :
          Serviced(r, "resume") =>
             LET old == sessions[reqs[r].sid]
                 new == sessions'[reqs[r].sid]
             IN /\ new.started_at = old.started_at
                /\ new.ended_at = old.ended_at
                /\ new.current_slide_id = old.current_slide_id
                /\ new.join_code = old.join_code
                /\ Fresh(r) =>
                      IF old.status = PAUSED
                      THEN /\ new = [old EXCEPT !.status = ACTIVE]
                           /\ reqs'[r].pc = "committed"
                      ELSE Failed(r, "InvalidTransition")]_vars

\* one resume went through on the paused session, which is active again with
\* its first started_at, and a second resume, of the active session, failed
C14_Witness ==
    \E r, q \in Reqs :
        /\ reqs[r].op = "resume" /\ reqs[r].pc = "done" /\ reqs[r].result = "ok"
        /\ reqs[q].op = "resume" /\ reqs[q].result = "InvalidTransition"
        /\ sessions[1].status = ACTIVE
        /\ sessions[1].started_at = 1
        /\ Len(commits) = 3

(* C15: changeSlide on a pending, active or paused session stores the slide  *)
(* as current_slide when it is a slide of the session's presentation, and    *)
(* otherwise fails with SlideNotInPresentation and stores nothing; status,   *)
(* started_at and ended_at are never changed by it; a failed changeSlide     *)
(* broadcasts nothing.                                                       *)
C15_ChangeSlide ==
    [][\A r \in Reqs :
          /\ Serviced(r, "slide") =>
                LET old == sessions[reqs[r].sid]
                    new == sessions'[reqs[r].sid]
                IN /\ new.status = old.status
                   /\ new.started_at = old.started_at
                   /\ new.ended_at = old.ended_at
                   /\ (Fresh(r) /\ old.status # ENDED) =>
                         IF reqs[r].slide_id \in SlidesOf(old.presentation_id)
                         THEN /\ new = [old EXCEPT !.current_slide_id = reqs[r].slide_id]
                              /\ reqs'[r].pc = "committed"
                         ELSE Failed(r, "SlideNotInPresentation")
          /\ reqs[r].result = "SlideNotInPresentation" =>
                /\ reqs'[r] = reqs[r]
                /\ reqs[r].broadcasts = 0
                /\ \A c \in Conns : FromRequest(c, r) = {}]_vars

\* the slide of the paused session was changed to another slide of its
\* presentation, and a request for a foreign slide failed
C15_Witness ==
    \E r, q \in Reqs :
        /\ reqs[r].op = "slide" /\ reqs[r].pc = "done" /\ reqs[r].result = "ok"
        /\ reqs[q].op = "slide" /\ reqs[q].result = "SlideNotInPresentation"
        /\ sessions[1].status = PAUSED
        /\ sessions[1].current_slide_id = "s2"
        /\ FirstSlide("p1") = "s1"

\* the session query of c's join returned in this step
JoinDecided(c) == conns[c].pc = "join_lookup" /\ conns'[c].pc # "join_lookup"

\* create_participant of c's join returned in this step
JoinCreated(c) == conns[c].pc = "join_create" /\ conns'[c].pc # "join_create"

(* C16: an audience join for a code no session has is rejected with          *)
(* session_not_found (close 4004), for a session whose status is ended with  *)
(* session_ended (close 4003), and neither creates a Participant nor         *)
(* registers anything; a join for a pending, active or paused session goes   *)
(* on to create exactly one Participant of that session and to append        *)
(* exactly one audience Connection that references it; Participants are      *)
(* created in no other way.                                                  *)
C16_AudienceJoin ==
    [][/\ \A c \in Conns :
             /\ JoinDecided(c) =>
                   /\ participants' = participants
                   /\ registry' = registry
                   /\ IF StoredSessions(c) = {}
                      THEN RejectedWith(c, "session_not_found", 4004)
                      ELSE IF \E i \in StoredSessions(c) : sessions[i].status = ENDED
                      THEN RejectedWith(c, "session_ended", 4003)
                      ELSE conns'[c].pc = "join_create" /\ conns'[c].sid \in StoredSessions(c)
             /\ JoinCreated(c) =>
                   LET key == Upper(conns[c].join_code)
                       pid == Len(participants) + 1
                   IN /\ participants' = Append(participants,
                            [session_id |-> conns[c].sid, connection_id |-> c,
                             left_at |-> NoTime])
                      /\ registry' = [registry EXCEPT ![key] = Append(@,
                            [connection_id |-> c, role |-> AUDIENCE,
                             participant_id |-> pid])]
                      /\ IndexOf(registry[key], c) = 0
       /\ Len(participants') > Len(participants) => \E c \in Conns : JoinCreated(c)]_vars

\* one join created its Participant and is registered as audience; another,
\* for a code no session has, was turned away
C16_Witness ==
    \E c, d \in Conns :
        /\ RegisteredAs(c, AUDIENCE)
        /\ Len(participants) = 1
        /\ participants[1].connection_id = c
        /\ conns[d].pc = "closed"
        /\ conns[d].error = "session_not_found"
        /\ conns[d].close_code = 4004

\* the participant_joined messages of joiner c in a message sequence
JoinedFrom(box, c) ==
    {i \in DOMAIN box : box[i].type = "participant_joined" /\ box[i].src = c}

\* handle_join_after_accept of c returned its Connection in this step
JoinReturned(c) ==
    conns[c].pc \in {"join_sent", "join_bcast"} /\ conns'[c].pc = "joined"

(* C17: the snapshot sent to a joiner carries the number of audience         *)
(* connections registered for the code right after its own registration;     *)
(* every participant_joined sent for it goes to a connection other than the  *)
(* joiner and carries that same number; when the join handler returns,       *)
(* every other connection registered for the code has been sent it.          *)
C17_JoinAnnounced ==
    [][\A c \in Conns :
          /\ JoinCreated(c) =>
                LET count == AudienceCount(registry'[Upper(conns[c].join_code)])
                IN /\ Len(inbox'[c]) = Len(inbox[c]) + 1
                   /\ inbox'[c][Len(inbox'[c])].type = "session_state"
                   /\ inbox'[c][Len(inbox'[c])].count = count
                   /\ conns'[c].participant_count = count
          /\ \A d \in Conns :
                \A i \in JoinedFrom(inbox'[d], c) \ JoinedFrom(inbox[d], c) :
                   /\ d # c
                   /\ inbox'[d][i].count = conns[c].participant_count
          /\ JoinReturned(c) =>
                \A d \in Conns \ {c} :
                   IndexOf(registry'[Upper(conns[c].join_code)], d) # 0 =>
                      JoinedFrom(inbox'[d], c) # {}]_vars

\* the snapshot c is sent for session i with count audience connections
SnapshotOf(i, count) ==
    [Message("session_state", "state", NoId) EXCEPT
        !.status = sessions[i].status, !.slide = sessions[i].current_slide_id,
        !.count = count]

(* C18: a join_speaker without token is rejected with auth_required, one     *)
(* whose token does not decode or has no sub with invalid_token (both close  *)
(* 4001); otherwise the code is looked up and an unknown code is rejected    *)
(* with session_not_found (4004), then a subject who is not the owner of     *)
(* the presentation with forbidden (4003), then a registered speaker with    *)
(* speaker_already_connected (4002); every rejection closes the socket and   *)
(* leaves the registry as it was; a success appends exactly one speaker      *)
(* Connection and sends the snapshot to it and nothing to anyone else; no    *)
(* Participant is created either way.                                        *)
C18_JoinSpeakerChecks ==
    [][\A c \in Conns :
          /\ \A token \in Tokens :
                ConnFirstJoinSpeaker(c, token) =>
                   /\ registry' = registry
                   /\ participants' = participants
                   /\ IF token = "none"
                      THEN RejectedWith(c, "auth_required", 4001)
                      ELSE IF token \in {"bad", "nosub"}
                      THEN RejectedWith(c, "invalid_token", 4001)
                      ELSE /\ conns'[c].pc = "speaker_lookup"
                           /\ conns'[c].speaker_id = token
          /\ SpeakerDecided(c) =>
                LET key == Upper(conns[c].join_code)
                IN /\ participants' = participants
                   /\ \A d \in Conns \ {c} : inbox'[d] = inbox[d]
                   /\ IF StoredSessions(c) = {}
                      THEN RejectedWith(c, "session_not_found", 4004) /\ registry' = registry
                      ELSE IF \A i \in StoredSessions(c) : OwnerOf(i) # conns[c].speaker_id
                      THEN RejectedWith(c, "forbidden", 4003) /\ registry' = registry
                      ELSE IF SpeakerCount(registry[key]) >= 1
                      THEN /\ RejectedWith(c, "speaker_already_connected", 4002)
                           /\ registry' = registry
                      ELSE /\ registry' = [registry EXCEPT ![key] = Append(@,
                                 [connection_id |-> c, role |-> SPEAKER,
                                  participant_id |-> NoId])]
                           /\ conns'[c].pc = "joined"
                           /\ \E i \in StoredSessions(c) :
                                 inbox'[c] = Append(inbox[c],
                                    SnapshotOf(i, AudienceCount(registry[key])))]_vars

\* one websocket joined as the speaker of the session and got the snapshot;
\* the join_speaker of the other, with the owner's token, found the speaker
\* registered
C18_Witness ==
    \E c, d \in Conns :
        /\ RegisteredAs(c, SPEAKER)
        /\ Len(inbox[c]) >= 1
        /\ inbox[c][1].type = "session_state"
        /\ conns[d].pc = "closed"
        /\ conns[d].error = "speaker_already_connected"
        /\ conns[d].close_code = 4002

\* c is in the registry list of some code
InRegistry(reg, c) == \E key \in RegistryKeys : IndexOf(reg[key], c) # 0

\* the first message of c was none of join and join_speaker: the handshake
\* ended in this step without reaching either handler's checks
FirstRefused(c) ==
    /\ conns[c].pc = "accepted"
    /\ conns'[c].pc = "closed"
    /\ conns'[c].error \notin {"auth_required", "invalid_token"}

(* C19: a websocket whose first message is not a join or a join_speaker, or  *)
(* cannot be parsed, is closed with code 4000, nothing is registered and no  *)
(* Participant is created; a connection enters the registry, and the main    *)
(* loop, only in the step in which its join or join_speaker succeeds.        *)
C19_FirstMessage ==
    [][\A c \in Conns :
          /\ FirstRefused(c) =>
                /\ conns'[c].close_code = 4000
                /\ registry' = registry
                /\ participants' = participants
          /\ (InRegistry(registry', c) /\ ~InRegistry(registry, c)) =>
                \/ JoinCreated(c) /\ conns'[c].role = AUDIENCE
                \/ SpeakerDecided(c) /\ conns'[c].role = SPEAKER
          /\ (conns'[c].pc = "joined" /\ conns[c].pc # "joined") =>
                JoinReturned(c) \/ SpeakerDecided(c)]_vars

\* a send of request r's broadcast loop raised in this step
SendRaised(r) == reqs'[r].failures > reqs[r].failures

(* C20: a send of a lifecycle broadcast that raises does not end the loop    *)
(* and undoes nothing; a request of which some send raised still returns     *)
(* success with its commit in place, and when it returns every connection    *)
(* registered for the code whose socket is open has been sent its event.     *)
C20_SendFailureIsolated ==
    [][\A r \in Reqs :
          /\ SendRaised(r) =>
                /\ reqs'[r].pc = "broadcast"
                /\ sessions' = sessions
                /\ commits' = commits
          /\ (Returned(r) /\ reqs[r].failures > 0) =>
                /\ reqs'[r].result = "ok"
                /\ CommitPos(r) # 0
                /\ \A d \in Conns :
                      ( /\ IndexOf(registry[Upper(reqs[r].session.join_code)], d) # 0
                        /\ SocketOpen(d) )
                      => FromRequest(d, r) # {}]_vars

\* the Participant of audience connection c has left_at set and its
\* connection_id cleared
MarkedLeft(c) ==
    /\ participants[JoinedConnection(c).participant_id].left_at # NoTime
    /\ participants[JoinedConnection(c).participant_id].connection_id = NoId

\* the transport of c is gone: it broke, or the handler of c is already in
\* its finally block or past it (a connection never comes back from there)
Gone(c) == conns[c].broken \/ conns[c].pc \in {"left_mark", "left_bcast", "closed"}

\* what has to have happened for a connection whose transport is gone
CleanedUp(c) ==
    /\ ~InRegistry(registry, c)
    /\ JoinedConnection(c).role = AUDIENCE => MarkedLeft(c)

(* C21: once the transport of a joined connection is gone, the connection is *)
(* eventually in no registry list, and the Participant of an audience        *)
(* connection eventually has left_at set and connection_id cleared (both are *)
(* then kept for good, so that from some moment on every connection whose    *)
(* transport is gone is cleaned up).                                         *)
C21_DisconnectCleansUp ==
    <>[](\A c \in JoinedConns : Gone(c) => CleanedUp(c))

\* the part of C21 about the registry alone
C21_EventuallyUnregistered ==
    <>[](\A c \in JoinedConns : Gone(c) => ~InRegistry(registry, c))

\* nothing but the inbox of c and its count of received messages changed
OnlyAnswered(c) ==
    /\ registry' = registry
    /\ sessions' = sessions
    /\ participants' = participants
    /\ responses' = responses
    /\ conns'[c] = [conns[c] EXCEPT !.received = @ + 1]
    /\ \A d \in Conns \ {c} : inbox'[d] = inbox[d] /\ conns'[d] = conns[d]
    /\ InRegistry(registry, c) => InRegistry(registry', c)

(* C22: when the main loop of a joined connection receives a ping, exactly   *)
(* one pong is sent, to that connection; when it receives a message of an    *)
(* unknown type nothing is sent; either way the connection stays in the main *)
(* loop and registered, and the registry, the session rows, the Participants *)
(* and the Responses are unchanged.                                          *)
C22_PingAndUnknown ==
    [][\A c \in Conns :
          /\ ConnPing(c) =>
                /\ OnlyAnswered(c)
                /\ Len(inbox'[c]) = Len(inbox[c]) + 1
                /\ SubSeq(inbox'[c], 1, Len(inbox[c])) = inbox[c]
                /\ inbox'[c][Len(inbox'[c])].type = "pong"
          /\ ConnUnknown(c) =>
                /\ OnlyAnswered(c)
                /\ inbox'[c] = inbox[c]]_vars

\* a registered audience connection got its pong while another connection,
\* which sent a message of an unknown type, got nothing
C22_Witness ==
    \E c, d \in Conns :
        /\ c # d
        /\ RegisteredAs(c, AUDIENCE)
        /\ conns[c].received = 1
        /\ Len(inbox[c]) = 1 /\ inbox[c][1].type = "pong"
        /\ RegisteredAs(d, conns[d].role)
        /\ conns[d].received = 1
        /\ inbox[d] = <<>>

\* a session that is not ended holds this code
Collides(code) ==
    \E i \in SessionIds : sessions[i].join_code = code /\ sessions[i].status # ENDED

(* C23: generate_unique_join_code makes at most MaxAttempts draws; a draw    *)
(* that no session which is not ended holds is returned at once; a draw that *)
(* collides is followed by another draw, except the MaxAttempts-th, after    *)
(* which the allocation fails with ExhaustedRetries; it fails in no other    *)
(* way, and every draw either ends the loop or uses up one of the attempts   *)
(* that are left, so that the loop ends.                                     *)
C23_AllocateBounded ==
    [][\A k \in Creates :
          /\ creates[k].attempt < MaxAttempts
          /\ \A code \in DrawCodes :
                CreateDraw(k, code) =>
                   /\ sessions' = sessions
                   /\ IF ~Collides(code)
                      THEN creates'[k].pc = "insert" /\ creates'[k].code = code
                      ELSE IF creates[k].attempt = MaxAttempts - 1
                      THEN creates'[k].pc = "done" /\ creates'[k].result = "ExhaustedRetries"
                      ELSE /\ creates'[k].pc = "draw"
                           /\ creates'[k].attempt = creates[k].attempt + 1
          /\ ( creates'[k].result = "ExhaustedRetries" /\ creates[k].result # "ExhaustedRetries" )
                => /\ creates[k].pc = "draw"
                   /\ creates[k].attempt = MaxAttempts - 1]_vars

\* one request created a session, and the allocation of the other used up
\* its draws on the code that session holds
C23_Witness ==
    \E k, l \in Creates, i \in SessionIds :
        /\ creates[k].result = "ExhaustedRetries"
        /\ creates[l].result = "ok"
        /\ sessions[i].status # ENDED
        /\ Collides(sessions[i].join_code)

\* the allocation of request k failed in this step
Exhausted(k) ==
    creates[k].result # "ExhaustedRetries" /\ creates'[k].result = "ExhaustedRetries"

(* C24: a create-session whose allocation fails with ExhaustedRetries        *)
(* creates no session, and the status it answers with is not the status a    *)
(* create-session for a missing or not-owned presentation answers with.      *)
C24_ExhaustedDistinct ==
    [][\A k \in Creates :
          Exhausted(k) =>
             /\ sessions' = sessions
             /\ creates'[k].response.status_code
                   # create_session_response("NotFound").status_code]_vars

\* the part of C24 about the store alone
C24_ExhaustedCreatesNothing ==
    [][\A k \in Creates : Exhausted(k) => sessions' = sessions]_vars

\* the create-session request k returned in this step
CreateReturned(k) == creates[k].pc # "done" /\ creates'[k].pc = "done"

\* the row a create-session for presentation p has to store
CreatedRow(row, p) ==
    /\ row.presentation_id = p
    /\ row.status = PENDING
    /\ row.started_at = NoTime
    /\ row.ended_at = NoTime
    /\ Len(row.join_code) = 6
    /\ IF SlidesOf(p) = {}
       THEN row.current_slide_id = NoSlide
       ELSE /\ row.current_slide_id \in SlidesOf(p)
            /\ \A y \in SlidesOf(p) :
                  OrderIndex(row.current_slide_id) <= OrderIndex(y)

\* the first step of a create-session: a presentation that is missing or
\* owned by someone else fails with NotFound, and nothing is stored yet
CreateChecked(k) ==
    \A p \in PresentationInputs, sp \in Speakers :
        CreateBegin(k, p, sp) =>
           /\ sessions' = sessions
           /\ IF p \in PresentationIds /\ Presentation(p).speaker_id = sp
              THEN creates'[k].pc = "draw" /\ creates'[k].presentation_id = p
              ELSE creates'[k].pc = "done" /\ creates'[k].result = "NotFound"

\* request k stored exactly one session, as create-session has to
CreatedOne(k) ==
    /\ creates'[k].result = "ok"
    /\ Len(sessions') = Len(sessions) + 1
    /\ SubSeq(sessions', 1, Len(sessions)) = sessions
    /\ CreatedRow(sessions'[Len(sessions')], creates[k].presentation_id)

C26_ResponsesOnlyWhileActive ==
    [][Len(responses') > Len(responses) =>
          \A i \in (Len(responses) + 1)..Len(responses') :
             sessions[responses'[i].session_id].status = ACTIVE]_vars

\* an end request on session i has returned success
EndCompleted(i) ==
    /\ sessions[i].status = ENDED
    /\ \E r \in Reqs : /\ reqs[r].op = "end" /\ reqs[r].pc = "done"
                       /\ reqs[r].result = "ok"
                       /\ CommitPos(r) # 0 /\ commits[CommitPos(r)].sid = i

(* C27: once an end request on a session has returned (session_ended sent,   *)
(* close_session done), no audience connection is registered under the       *)
(* session's join code.                                                      *)
C27_NoAudienceAfterEnd ==
    \A i \in SessionIds :
        EndCompleted(i) => AudienceCount(registry[sessions[i].join_code]) = 0

\* the status a message tells its receiver, "" for a message that tells none
StatusTold(m) ==
    CASE m.type = "session_state" -> m.status
      [] m.type \in {"session_started", "session_resumed"} -> ACTIVE
      [] m.type = "session_paused" -> PAUSED
      [] m.type = "session_ended" -> ENDED
      [] OTHER -> ""

\* the status most recently reported to c
LastReported(c) ==
    LET told == {i \in DOMAIN inbox[c] : StatusTold(inbox[c][i]) # ""}
    IN IF told = {} THEN ""
       ELSE StatusTold(inbox[c][CHOOSE i \in told : \A j \in told : j <= i])

\* no request and no broadcast loop is under way
Quiet ==
    /\ \A r \in Reqs : reqs[r].pc \in {"idle", "done"}
    /\ \A c \in Conns : ~bcC[c].on
    /\ \A c \in Conns : conns[c].pc \in {"new", "joined", "closed"}

(* C28: when no request and no broadcast is under way any more, the status   *)
(* most recently reported to a joined connection, by its snapshot or by a    *)
(* later lifecycle event, is the stored status of its session.               *)
C28_NoStaleView ==
    Quiet =>
       \A c \in Conns :
          conns[c].pc = "joined" =>
             \A i \in SessionIds :
                sessions[i].join_code = Upper(conns[c].join_code)
                   => LastReported(c) = sessions[i].status

\* the participant_left messages of leaver c in a message sequence
LeftFrom(box, c) ==
    {i \in DOMAIN box : box[i].type = "participant_left" /\ box[i].src = c}

\* the participant_left broadcast of c returned in this step
LeftReturned(c) ==
    conns[c].pc \in {"left_mark", "left_bcast"} /\ conns'[c].pc = "closed"

\* d has been in the registry list of the code since before the broadcast
\* began (no connection registers twice) and its socket is open
StillRegistered(d, join_code) ==
    /\ d \in JoinedConns
    /\ IndexOf(registry[Upper(join_code)], d) # 0
    /\ SocketOpen(d)

(* C29: no connection is sent the message of a broadcast_to_session call     *)
(* twice, and when the call returns every connection that was registered     *)
(* for the code during the whole call has been sent it once, whatever        *)
(* connections left while the call was suspended in a send; both for the     *)
(* broadcast of a lifecycle request and for the participant_left broadcast   *)
(* of a leaving connection.                                                  *)
C29_EachRegisteredOnce ==
    [][/\ \A r \in Reqs, d \in Conns : Cardinality(FromRequest(d, r)) <= 1
       /\ \A c, d \in Conns : Cardinality(LeftFrom(inbox[d], c)) <= 1
       /\ \A r \in Reqs :
             Returned(r) =>
                \A d \in Conns :
                   StillRegistered(d, reqs[r].session.join_code)
                      => Cardinality(FromRequest(d, r)) = 1
       /\ \A c \in Conns :
             LeftReturned(c) =>
                \A d \in Conns \ {c} :
                   StillRegistered(d, conns[c].join_code)
                      => Cardinality(LeftFrom(inbox'[d], c)) = 1]_vars

\* the slide rows whose presentation_id is that of the session row
OwnSlides(row) == Range(Presentation(row.presentation_id).slides)

(* C30: in every reachable state the current slide of every session is null  *)
(* or a slide of the session's own presentation, whatever sessions were      *)
(* created and whatever slide changes were requested.                        *)
C30_CurrentSlideOwn ==
    \A i \in SessionIds :
       sessions[i].current_slide_id \in {NoSlide} \cup OwnSlides(sessions[i])

\* a session of p1 was moved off its first slide, a session without slides
\* was created, and a slide change was refused
C30_Witness ==
    /\ \E i \in SessionIds :
          sessions[i].presentation_id = "p1" /\ sessions[i].current_slide_id = "s2"
    /\ \E i \in SessionIds :
          sessions[i].presentation_id = "p2" /\ sessions[i].current_slide_id = NoSlide
    /\ \E r \in Reqs : reqs[r].result = "SlideNotInPresentation"

\* the Response row is linked to the session of the code and to a Participant
\* of that session, and is not an AI response
Linked(row) ==
    /\ row.session_id = get_session_by_join_code(TheCode)
    /\ row.participant_id \in DOMAIN participants
    /\ participants[row.participant_id].session_id = row.session_id
    /\ row.is_ai_response = FALSE

(* C31: every persisted Response is linked to the session resolved from the  *)
(* join code and to the submitting connection's Participant, is not an AI    *)
(* response, and references a slide of that session's presentation.          *)
C31_ResponseOfOwnSlide ==
    \A i \in DOMAIN responses :
       /\ Linked(responses[i])
       /\ responses[i].slide_id \in OwnSlides(sessions[responses[i].session_id])

\* the linkage without the slide
C31_ResponseLinked == \A i \in DOMAIN responses : Linked(responses[i])

\* the session rows that hold the code
Holding(code) == {i \in SessionIds : sessions[i].join_code = code}

(* C32: at most one session row, ended or not, holds a given join code; the  *)
(* lookup by join code, in any letter case, matches at most one row, and it  *)
(* does not resolve to an ended session while a session that is not ended    *)
(* holds the same code.                                                      *)
C32_OneSessionPerCode ==
    /\ \A i, j \in SessionIds :
          sessions[i].join_code = sessions[j].join_code => i = j
    /\ \A code \in UrlCodes :
          /\ Cardinality(Holding(Upper(code))) <= 1
          /\ LET sid == get_session_by_join_code(code)
             IN (sid # NoId /\ sessions[sid].status = ENDED)
                   => ~check_join_code_exists(Upper(code))

\* a second INSERT of a code was refused by the index, and the one session
\* that holds the code has ended since: the lookup resolves to it alone
C32_Witness ==
    \E k \in Creates, i \in SessionIds :
       /\ creates[k].result = "IntegrityError"
       /\ sessions[i].join_code = creates[k].code
       /\ sessions[i].status = ENDED
       /\ get_session_by_join_code(creates[k].code) = i
       /\ \E r \in Reqs : reqs[r].op = "end" /\ reqs[r].result = "ok"

\* the session query of c's join handler (pc) returned in this step and found
\* the session of the code ended
FoundEnded(c, pc) ==
    /\ conns[c].pc = pc
    /\ conns'[c].pc # pc
    /\ LET sid == get_session_by_join_code(conns[c].join_code)
       IN sid # NoId /\ sessions[sid].status = ENDED

(* C33: a join_speaker, like an audience join, whose handler finds the        *)
(* session of the code ended is rejected: the socket is closed and no         *)
(* connection of either role is added to the registry.                        *)
C33_NoJoinOfEnded ==
    [][\A c \in Conns :
          (FoundEnded(c, "join_lookup") \/ FoundEnded(c, "speaker_lookup"))
             => /\ conns'[c].pc = "closed"
                /\ registry' = registry]_vars

\* the audience half
C33_AudienceRefused ==
    [][\A c \in Conns :
          FoundEnded(c, "join_lookup")
             => /\ RejectedWith(c, "session_ended", 4003)
                /\ registry' = registry]_vars

\* the service call of slide-change request r on a row loaded as ended
\* returned in this step
SlideOfEnded(r) ==
    /\ reqs[r].pc = "loaded"
    /\ reqs[r].op = "slide"
    /\ reqs[r].session.status = ENDED
    /\ reqs'[r].pc # "loaded"

(* C34: a slide change requested for a session that is ended fails and       *)
(* commits nothing, and no step changes the current slide of a session       *)
(* whose stored status is ended.                                             *)
C34_EndedSlideFrozen ==
    [][/\ \A r \in Reqs :
             SlideOfEnded(r) => reqs'[r].pc = "done" /\ reqs'[r].result # "ok"
                                /\ commits' = commits
       /\ \A i \in SessionIds :
             sessions[i].status = ENDED
                => sessions'[i].current_slide_id = sessions[i].current_slide_id]_vars

\* started_at is set exactly when the row is not pending, ended_at exactly
\* when it is ended
TimesAgree(row) ==
    /\ row.started_at # NoTime <=> row.status # PENDING
    /\ row.ended_at # NoTime <=> row.status = ENDED

(* C35: in every reachable state started_at is set exactly when the status   *)
(* of the session is not pending and ended_at exactly when it is ended, and  *)
(* no step changes a started_at that is set.                                 *)
C35_TimestampsFollowStatus ==
    [][/\ \A i \in SessionIds : TimesAgree(sessions[i])
       /\ \A i \in DOMAIN sessions' : TimesAgree(sessions'[i])
       /\ \A i \in SessionIds :
             sessions[i].started_at # NoTime
                => sessions'[i].started_at = sessions[i].started_at]_vars

\* the part of the statement about ended_at of sessions that are ended
C35_EndedHasEndTime ==
    \A i \in SessionIds : sessions[i].status = ENDED => sessions[i].ended_at # NoTime

\* the handler of c took its connection out of the registry in this step
Unregistered(c) ==
    /\ conns[c].pc = "joined"
    /\ conns'[c].pc # "joined"
    /\ InRegistry(registry, c)
    /\ ~InRegistry(registry', c)

\* the list without the entries of connection c, the others in their order
Without(list, c) ==
    LET keep(i) == list[i].connection_id # c
        F[i \in 0..Len(list)] ==
            IF i = 0 THEN <<>>
            ELSE IF keep(i) THEN Append(F[i - 1], list[i]) ELSE F[i - 1]
    IN F[Len(list)]

(* C36: the step in which a connection is unregistered removes that          *)
(* connection alone: under every code the other connections stay registered  *)
(* with their role, participant reference and relative order, and the loop   *)
(* of no other connection is ended or otherwise changed.                     *)
C36_UnregisterOnlySelf ==
    [][\A c \in Conns :
          Unregistered(c) =>
             /\ \A key \in RegistryKeys : registry'[key] = Without(registry[key], c)
             /\ \A d \in Conns \ {c} : conns'[d] = conns[d]]_vars

\* the audience connection of the first code left; the speaker before it in
\* the list and both connections of the other code are registered and joined
C36_Witness ==
    /\ conns[2].pc = "closed"
    /\ registry[TheCode] = <<JoinedConnection(1)>>
    /\ registry[OtherCode] = <<JoinedConnection(3), JoinedConnection(4)>>
    /\ \A d \in {1, 3, 4} : conns[d].pc = "joined"

\* a broadcast loop of a request or of a connection made a send in this
\* step, or a response_received was sent to the speaker
SendStep ==
    \/ \E r \in Reqs : bcR'[r].idx > bcR[r].idx
    \/ \E c \in Conns : bcC'[c].idx > bcC[c].idx
    \/ \E c \in Conns : conns[c].pc = "submit_refresh" /\ conns'[c].pc = "joined"

\* c, whose transport is broken, left the registry in this step
Reaped(c) ==
    /\ conns[c].broken
    /\ InRegistry(registry, c)
    /\ ~InRegistry(registry', c)

\* the step is one of c's own handler
OwnStep(c) == conns'[c] # conns[c]

\* an end request returned in this step: broadcast_session_ended has called
\* close_session after its broadcast
EndClosed ==
    \E r \in Reqs : Returned(r) /\ reqs[r].op = "end"

(* C37 as stated: no send of a broadcast changes the registry, and a         *)
(* connection that cannot receive leaves the registry only by a step of its  *)
(* own handler.                                                              *)
C37_Original ==
    [][/\ SendStep => registry' = registry
       /\ \A c \in Conns : Reaped(c) => OwnStep(c)]_vars

(* C37: no send of a broadcast to the session or of a notification to the    *)
(* speaker changes the registry, whether the send fails or not; a            *)
(* connection that cannot receive leaves the registry only by a step of its  *)
(* own handler or when close_session drops the whole list of the code at the *)
(* end of the session-ended broadcast.                                       *)
C37_Amended ==
    [][/\ SendStep => registry' = registry
       /\ \A c \in Conns :
             Reaped(c) =>
                \/ OwnStep(c)
                \/ EndClosed /\ registry'[Upper(conns[c].join_code)] = <<>>]_vars

\* a pause broadcast failed on a broken connection and returned, and a
\* response_received was sent to the broken speaker, who is still registered
C37_Witness ==
    /\ reqs[1].pc = "done" /\ reqs[1].op = "pause" /\ reqs[1].failures >= 1
    /\ conns[1].broken /\ conns[1].pc = "joined"
    /\ InRegistry(registry, 1)
    /\ Len(responses) = 1 /\ conns[2].pc = "joined"

\* every registry operation gives the same result for the code as spelled
\* and for its upper-case form
SameCollection(code) ==
    /\ get_session_connections(registry, code) = registry[Upper(code)]
    /\ get_participant_count(registry, code) = get_participant_count(registry, Upper(code))
    /\ get_speaker_connection(registry, code) = get_speaker_connection(registry, Upper(code))
    /\ close_session(registry, code) = close_session(registry, Upper(code))
    /\ \A c \in Conns :
          /\ disconnect(registry, code, c) = disconnect(registry, Upper(code), c)
          /\ Removed(registry, code, c) = Removed(registry, Upper(code), c)

(* C38: the registry holds connections under upper-case codes only; a        *)
(* connection registered through a URL in any letter case is in the list of  *)
(* the upper-case code, where lookups, the audience count, the speaker       *)
(* lookup, the broadcast loops, disconnect and close_session called with     *)
(* either spelling all act.                                                  *)
C38_CaseNormalized ==
    /\ \A key \in RegistryKeys : key # Upper(key) => registry[key] = <<>>
    /\ \A code \in UrlCodes : SameCollection(code)
    /\ \A c \in Conns :
          /\ InRegistry(registry, c)
                => IndexOf(get_session_connections(registry, conns[c].join_code), c) # 0
          /\ bcC[c].on => bcC[c].key = Upper(conns[c].join_code)
    /\ \A r \in Reqs : bcR[r].on => bcR[r].key = Upper(bcR[r].key)

\* a connection that joined through the lower-case URL and one that joined
\* through the upper-case URL are in the same list, and both are counted
C38_Witness ==
    \E c, d \in Conns :
       /\ conns[c].join_code # Upper(conns[c].join_code)
       /\ conns[d].join_code = TheCode
       /\ IndexOf(registry[TheCode], c) # 0
       /\ IndexOf(registry[TheCode], d) # 0
       /\ get_participant_count(registry, conns[c].join_code) = 2

\* the error replies connection c has been sent
Errors(c) == {i \in DOMAIN inbox[c] : inbox[c][i].type = "error"}

\* c has been sent the error reply code
Refused(c, code) == \E i \in Errors(c) : inbox[c][i].code = code

(* C39: the step that rejects a submit_response (invalid_request, forbidden  *)
(* or session_not_active) sends one error to the sender and nothing to any   *)
(* other connection, leaves the registry as it was with the sender in it,    *)
(* returns the sender to its main loop and stores no Response; no message    *)
(* is answered with more than one error.                                     *)
C39_RejectedSubmit ==
    [][\A c \in Conns :
          /\ Rejected(c) =>
                /\ \A d \in Conns \ {c} : inbox'[d] = inbox[d]
                /\ registry' = registry
                /\ InRegistry(registry, c) => InRegistry(registry', c)
                /\ conns'[c].pc = "joined"
                /\ \A d \in Conns \ {c} : conns'[d] = conns[d]
                /\ responses' = responses
          /\ Cardinality(Errors(c)) <= conns[c].received]_vars

\* the three rejections have happened, each to a connection that is still
\* registered and in its main loop
C39_Witness ==
    /\ Refused(1, "forbidden")
    /\ Refused(2, "invalid_request")
    /\ Refused(3, "session_not_active")
    /\ \A c \in JoinedConns : conns[c].pc = "joined" /\ InRegistry(registry, c)
    /\ responses = <<>>

\* the Connection of d is the one the registry reports as speaker under a code
ReportedSpeaker(d) ==
    \E key \in RegistryKeys : get_speaker_connection(registry, key).connection_id = d

\* the handler of speaker connection d ended in this step
SpeakerGone(d) ==
    /\ conns[d].pc \in {"speaker_lookup", "joined"}
    /\ conns[d].role # AUDIENCE
    /\ conns'[d].pc = "closed"

(* C40: once the handler of a speaker connection has ended, the registry     *)
(* reports that connection as speaker of no code, so that the next           *)
(* join_speaker of the owner is not refused because of it; the step in       *)
(* which it ends modifies no Participant and starts no participant_left      *)
(* broadcast.                                                                *)
C40_SpeakerSlotReleased ==
    [][\A d \in Conns :
          /\ conns'[d].pc = "closed" => ~ReportedSpeaker(d)'
          /\ SpeakerGone(d) => /\ participants' = participants
                               /\ bcC'[d] = NoBc
                               /\ \A e \in Conns \ {d} : inbox'[e] = inbox[e]]_vars

\* the part of the statement about a speaker that leaves its main loop
C40_JoinedSpeakerReleased ==
    [][\A d \in Conns :
          (conns[d].pc = "joined" /\ conns[d].role = SPEAKER /\ conns'[d].pc = "closed")
             => /\ ~ReportedSpeaker(d)'
                /\ participants' = participants
                /\ bcC'[d] = NoBc
                /\ \A e \in Conns \ {d} : inbox'[e] = inbox[e]]_vars

====
